---- MODULE Spec2Model ----
(***************************************************************************)
(* Model of the query routing and multi-agent orchestration layer:         *)
(*   - the per-thread conversation memory of src/api/main.py               *)
(*   - OrchestratorV5 (src/langgraph_agent/orchestration/orchestrator_v5)  *)
(*   - the deltas of the comparison tools (tools/performance)              *)
(*   - FastPathWorkflow.execute (src/langgraph_agent/workflows/base.py)    *)
(*   - the reasoning loop of the specialists (agents/*_agent.py)           *)
(*   - the ad ranking of obtener_anuncios_por_rendimiento_func             *)
(* Ten specifications share the variables and the initial state:          *)
(*   SpecMem      the request handler's use of THREAD_MESSAGES             *)
(*   Spec         one process_query call at a time, step by step           *)
(*   SpecCombine  _combine_responses applied to any collected responses    *)
(*   SpecConc     two process_query calls updating self.metrics at once    *)
(*   SpecApi      requests served by the /query handler on the event loop, *)
(*                each running process_query step by step                  *)
(*   SpecDelta    the delta computations applied to any pair of values     *)
(*   SpecFast     FastPathWorkflow.execute applied to any short query      *)
(*   SpecAgent    one or several specialists run on a question, node by    *)
(*                node, over their own checkpoint stores                   *)
(*   SpecAgentLive  SpecAgent with weak fairness of its steps              *)
(*   SpecRank     the ranking applied to any small list of ad insights     *)
(***************************************************************************)
EXTENDS Integers, Sequences, FiniteSets, TLC

VARIABLES
    \* ---- src/api/main.py ----
    THREAD_MESSAGES,   \* dict thread_id -> list of messages (main.py:43)
    hpc,               \* position of the request handler between its two adds
    appended,          \* history: per thread, every message added since creation/clear
    nreq,              \* history: per thread, number of requests handled so far
    \* ---- OrchestratorV5.process_query ----
    pc,                \* position of the call in progress
    call,              \* arguments of the call: query, thread_id, force_workflow
    category,          \* local `category`
    coord_decision,    \* local `coord_decision.agent`
    multi,             \* locals of _execute_multi_agent
    running,           \* specialists whose invoke has been entered and not left
    trace,             \* history: collaborators called during this call, in order
    exc,               \* exception in flight / caught (None when there is none)
    result,            \* locals `result` and `workflow_type`
    outcome,           \* what the call handed to its caller
    metrics,           \* self.metrics
    completed,         \* history: per returned label, number of completed calls
    ncalls,            \* history: number of calls started
    \* ---- _combine_responses on its own ----
    cmb,
    \* ---- two concurrent calls ----
    thr,
    \* ---- the event loop serving /query (src/api/main.py) ----
    api,
    \* ---- the delta computations of the comparison tools ----
    dlt,
    \* ---- FastPathWorkflow.execute (src/langgraph_agent/workflows/base.py) ----
    fp,
    \* ---- one specialist's reasoning loop, per session (agents/*.py) ----
    ag,
    \* ---- obtener_anuncios_por_rendimiento_func (performance_tools.py) ----
    rk

vars == <<THREAD_MESSAGES, hpc, appended, nreq, pc, call, category, coord_decision,
          multi, running, trace, exc, result, outcome, metrics, completed, ncalls, cmb, thr,
          api, dlt, fp, ag, rk>>

memVars == <<THREAD_MESSAGES, hpc, appended, nreq>>
orchVars == <<pc, call, category, coord_decision, multi, running, trace, exc,
              result, outcome, metrics, completed, ncalls>>

None == "None"

(***************************************************************************)
(* Bounds of the model                                                     *)
(***************************************************************************)
MaxRequests == 12      \* requests handled per thread in SpecMem

Sessions == {"thread_a", "thread_b"}

(***************************************************************************)
(* Conversation memory (src/api/main.py)                                   *)
(***************************************************************************)
MaxThreadMessages == 20

Min(a, b) == IF a <= b THEN a ELSE b

\* Python slice seq[-n:] for n > 0
LastN(seq, n) == IF Len(seq) <= n THEN seq ELSE SubSeq(seq, Len(seq) - n + 1, Len(seq))

HumanMessage(c) == [type |-> "human", content |-> c]
AIMessage(c) == [type |-> "ai", content |-> c]

get_thread_messages(tm, thread_id) ==
    IF thread_id \in DOMAIN tm THEN tm[thread_id] ELSE <<>>

\* the message appended to the list of every thread the dict holds
add_message_to_thread_every_thread(tm, thread_id, message) ==
    LET tm1 == IF thread_id \notin DOMAIN tm THEN tm @@ (thread_id :> <<>>) ELSE tm
    IN  [t \in DOMAIN tm1 |-> LastN(Append(tm1[t], message), MaxThreadMessages)]

\* the list cut to its last 20 before the append instead of after it
add_message_to_thread_cut_first(tm, thread_id, message) ==
    LET tm1 == IF thread_id \notin DOMAIN tm THEN tm @@ (thread_id :> <<>>) ELSE tm
        tm2 == [tm1 EXCEPT ![thread_id] = LastN(@, MaxThreadMessages)]
    IN  [tm2 EXCEPT ![thread_id] = Append(@, message)]

add_message_to_thread_keep_first(tm, thread_id, message) ==
    LET tm1 == IF thread_id \notin DOMAIN tm THEN tm @@ (thread_id :> <<>>) ELSE tm
        tm2 == [tm1 EXCEPT ![thread_id] = Append(@, message)]
    IN  IF Len(tm2[thread_id]) > MaxThreadMessages
        THEN [tm2 EXCEPT ![thread_id] = SubSeq(@, 1, MaxThreadMessages)]
        ELSE tm2

add_message_to_thread(tm, thread_id, message) ==
    LET tm1 == IF thread_id \notin DOMAIN tm THEN tm @@ (thread_id :> <<>>) ELSE tm
        tm2 == [tm1 EXCEPT ![thread_id] = Append(@, message)]
    IN  IF Len(tm2[thread_id]) > MaxThreadMessages
        THEN [tm2 EXCEPT ![thread_id] = LastN(@, MaxThreadMessages)]
        ELSE tm2

clear_thread_messages_drop_oldest(tm, thread_id) ==
    IF thread_id \in DOMAIN tm
    THEN [tm EXCEPT ![thread_id] = SubSeq(@, 2, Len(@))]
    ELSE tm

clear_thread_messages(tm, thread_id) ==
    IF thread_id \in DOMAIN tm
    THEN [t \in DOMAIN tm \ {thread_id} |-> tm[t]]
    ELSE tm

InitMemVars ==
    /\ THREAD_MESSAGES = <<>>
    /\ hpc = None
    /\ appended = [s \in Sessions |-> <<>>]
    /\ nreq = [s \in Sessions |-> 0]

\* /query and /threads/{id}/runs, first add: the question.  The handler has no
\* await between the call of the orchestrator and its two adds, so no other
\* handler runs in between; the orchestrator's answer is drawn when it is stored.
HandlerAddHuman(s) ==
    /\ hpc = None
    /\ nreq[s] < MaxRequests
    /\ LET m == HumanMessage(nreq[s] + 1)
       IN  /\ THREAD_MESSAGES' = add_message_to_thread(THREAD_MESSAGES, s, m)
           /\ appended' = [appended EXCEPT ![s] = Append(@, m)]
    /\ nreq' = [nreq EXCEPT ![s] = @ + 1]
    /\ hpc' = s
    /\ UNCHANGED <<orchVars, cmb, thr, api, dlt, fp, ag, rk>>

\* second add: the answer of the same request
HandlerAddAI(s) ==
    /\ hpc = s
    /\ LET m == AIMessage(nreq[s])
       IN  /\ THREAD_MESSAGES' = add_message_to_thread(THREAD_MESSAGES, s, m)
           /\ appended' = [appended EXCEPT ![s] = Append(@, m)]
    /\ hpc' = None
    /\ UNCHANGED <<nreq, orchVars, cmb, thr, api, dlt, fp, ag, rk>>

ClearThread(s) ==
    /\ hpc = None
    /\ THREAD_MESSAGES' = clear_thread_messages(THREAD_MESSAGES, s)
    /\ appended' = [appended EXCEPT ![s] = <<>>]
    /\ UNCHANGED <<hpc, nreq, orchVars, cmb, thr, api, dlt, fp, ag, rk>>

(***************************************************************************)
(* Questions.  A question is the set of words it is made of; `kw in         *)
(* query.lower()` is a substring test on the lower-cased text.             *)
(***************************************************************************)
MaxWords == 2          \* words per question
MaxCalls == 2          \* process_query calls per behaviour
MaxElapsed == 2        \* elapsed times drawn per call
MaxThreadCalls == 1    \* process_query calls per thread in SpecConc

Words == {"Gasto", "mejorar", "lista"}

Lower(w) == IF w = "Gasto" THEN "gasto" ELSE w

\* kw is a substring of the lower-case word w
Substr(kw, w) == kw = w \/ (kw = "mejora" /\ w = "mejorar")

Queries == {q \in SUBSET Words : Cardinality(q) >= 1 /\ Cardinality(q) <= MaxWords}

KwInQuery(kw, query) == \E w \in query : Substr(kw, Lower(w))

PerformanceKeywords ==
    {"gasto", "clicks", "conversiones", "rendimiento", "ctr", "cpm", "cpa"}

RecommendationKeywords ==
    {"recomienda", "optimiza", "mejora", "sugerencia", "debería", "completo", "análisis"}

Agents == {"config", "performance", "recommendation"}
AgentOrder == <<"config", "performance", "recommendation">>
Answers == {"r1", "r2"}

\* the keys self.metrics is built with
MetricLabels ==
    {"simple", "agentic_config", "agentic_performance", "agentic_recommendation",
     "multi_agent"}

AllLabels == MetricLabels \cup {"error"}

\* the elapsed wall-clock times the model draws, in milliseconds
ElapsedChoices == {7 * k : k \in 1..MaxElapsed}

RouterCategories == {"simple", "agentic", "multi_agent"}
CoordinatorAgents == {"config", "performance", "recommendation", "multi"}
ForceValues == {None, "simple", "agentic", "multi_agent", "bogus"}

WorkflowResult(content, workflow_type, metadata) ==
    [content |-> content, workflow_type |-> workflow_type, metadata |-> metadata]

(***************************************************************************)
(* OrchestratorV5                                                          *)
(***************************************************************************)
\* an Optional[List[BaseMessage]] argument: left out (None) or a list
NotGiven == [given |-> FALSE]
Given(messages) == [given |-> TRUE, value |-> messages]

NoCall == [query |-> {}, thread_id |-> None, force_workflow |-> None,
           messages |-> NotGiven]
NoMulti == [needs |-> [a \in Agents |-> FALSE], i |-> 0,
            agents_used |-> <<>>, responses |-> <<>>]
NoResult == [result |-> [kind |-> "none"], workflow_type |-> None]
NoOutcome == [kind |-> "none"]

InitMetrics == [wt \in MetricLabels |-> [count |-> 0, total_time |-> 0]]

InitOrchVars ==
    /\ pc = "idle"
    /\ call = NoCall
    /\ category = None
    /\ coord_decision = None
    /\ multi = NoMulti
    /\ running = {}
    /\ trace = <<>>
    /\ exc = None
    /\ result = NoResult
    /\ outcome = NoOutcome
    /\ metrics = InitMetrics
    /\ completed = [l \in AllLabels |-> 0]
    /\ ncalls = 0

Called(fn, thread_id) == [fn |-> fn, query |-> call.query, thread_id |-> thread_id]

InvokeFn(agent) ==
    CASE agent = "config" -> "config_agent.invoke"
      [] agent = "performance" -> "performance_agent.invoke"
      [] agent = "recommendation" -> "recommendation_agent.invoke"

\* workflow_type.split("_")[1]
SplitAgent(workflow_type) ==
    CASE workflow_type = "agentic_config" -> "config"
      [] workflow_type = "agentic_performance" -> "performance"
      [] workflow_type = "agentic_recommendation" -> "recommendation"

\* the statements of process_query that lie inside its try block
TryBlock_without_classify ==
    {"dispatch", "agent_selected", "single_wait", "multi", "multi_wait", "metrics"}

TryBlock ==
    {"classify", "dispatch", "agent_selected", "single_wait", "multi", "multi_wait",
     "metrics"}

\* an exception raised at the current position: caught by the except clause
\* when the position is inside the try block, handed to the caller otherwise
Raise(e) ==
    /\ exc' = e
    /\ IF pc \in TryBlock
       THEN /\ pc' = "except"
            /\ UNCHANGED outcome
       ELSE /\ pc' = "idle"
            /\ outcome' = [kind |-> "raised", error |-> e]
    /\ UNCHANGED completed

\* process_query is entered with its four arguments: start_time, thread_id,
\* the banner
ProcessQueryEnter(q, tid, fw, msgs) ==
    /\ pc = "idle"
    /\ ncalls < MaxCalls
    /\ ncalls' = ncalls + 1
    /\ call' = [query |-> q,
                thread_id |-> IF tid = None THEN "thread_generated" ELSE tid,
                force_workflow |-> fw,
                messages |-> msgs]
    /\ category' = None
    /\ coord_decision' = None
    /\ multi' = NoMulti
    /\ running' = {}
    /\ trace' = <<>>
    /\ exc' = None
    /\ result' = NoResult
    /\ outcome' = NoOutcome
    /\ pc' = "classify"
    /\ UNCHANGED <<metrics, completed, cmb, thr, dlt, fp, ag, rk>>

\* a direct call process_query(query, thread_id, force_workflow): `messages`
\* keeps its default
ProcessQuery(q, tid, fw) ==
    /\ ProcessQueryEnter(q, tid, fw, NotGiven)
    /\ UNCHANGED <<memVars, api>>

\* QueryRouterV4._prepare_context: the last 6 messages, one line each.  The
\* model's message contents are shorter than the 150/200 characters at which
\* the code cuts a line.
MaxContextMessages == 6

NoContext == [kind |-> "Sin historial previo"]

_prepare_context(messages) ==
    IF ~messages.given \/ Len(messages.value) = 0
    THEN NoContext
    ELSE LET recent_messages == LastN(messages.value, MaxContextMessages)
         IN  [kind |-> "lines",
              lines |-> [i \in 1..Len(recent_messages) |->
                            [who |-> IF recent_messages[i].type = "human"
                                     THEN "Usuario" ELSE "Asistente",
                             content |-> recent_messages[i].content]]]

\* QueryRouterV4.classify(query, messages): what it hands to the chain
RouterChainInput(query, messages) ==
    [query |-> query, conversation_context |-> _prepare_context(messages)]

\* the call site in process_query: self.router.classify(query)
ClassifyCalled ==
    [fn |-> "router.classify", query |-> call.query, thread_id |-> None,
     input |-> RouterChainInput(call.query, NotGiven)]

ClassifyForced_after_classify ==
    /\ pc = "classify"
    /\ call.force_workflow # None
    /\ trace' = Append(trace, ClassifyCalled)
    /\ category' = call.force_workflow
    /\ pc' = "dispatch"
    /\ UNCHANGED <<call, coord_decision, multi, running, exc, result, outcome,
                   metrics, completed, ncalls, memVars, cmb, thr, api, dlt, fp, ag, rk>>

\* if force_workflow: category = force_workflow
ClassifyForced ==
    /\ pc = "classify"
    /\ call.force_workflow # None
    /\ category' = call.force_workflow
    /\ pc' = "dispatch"
    /\ UNCHANGED <<call, coord_decision, multi, running, trace, exc, result, outcome,
                   metrics, completed, ncalls, memVars, cmb, thr, api, dlt, fp, ag, rk>>

\* route_result = self.router.classify(query) returns
ClassifyReturn(c) ==
    /\ pc = "classify"
    /\ call.force_workflow = None
    /\ trace' = Append(trace, ClassifyCalled)
    /\ category' = c
    /\ pc' = "dispatch"
    /\ UNCHANGED <<call, coord_decision, multi, running, exc, result, outcome,
                   metrics, completed, ncalls, memVars, cmb, thr, api, dlt, fp, ag, rk>>

\* self.router.classify(query) raises
ClassifyRaise ==
    /\ pc = "classify"
    /\ call.force_workflow = None
    /\ trace' = Append(trace, ClassifyCalled)
    /\ Raise("router_failed")
    /\ UNCHANGED <<call, category, coord_decision, multi, running, result,
                   metrics, ncalls, memVars, cmb, thr, api, dlt, fp, ag, rk>>

Branch_multi_through_coordinator(cat) ==
    IF cat = "simple" THEN "simple"
    ELSE IF cat = "agentic" \/ cat = "multi_agent" THEN "agentic"
    ELSE "unknown"

\* the if/elif chain on `category` (process_query, PASO 2)
Branch(cat) ==
    IF cat = "simple" THEN "simple"
    ELSE IF cat = "agentic" THEN "agentic"
    ELSE IF cat = "multi_agent" THEN "multi_agent"
    ELSE "unknown"

SingleDispatch_recommendation_to_performance(decision) ==
    IF decision = "config"
    THEN [agent |-> "config", workflow_type |-> "agentic_config"]
    ELSE IF decision = "performance" \/ decision = "recommendation"
    THEN [agent |-> "performance", workflow_type |-> "agentic_performance"]
    ELSE [agent |-> None, workflow_type |-> "multi_agent"]

\* the if/elif chain on coord_decision.agent: the agent invoked and the label
\* handed to _execute_single_agent; the final else is the multi-agent path
SingleDispatch(decision) ==
    IF decision = "config"
    THEN [agent |-> "config", workflow_type |-> "agentic_config"]
    ELSE IF decision = "performance"
    THEN [agent |-> "performance", workflow_type |-> "agentic_performance"]
    ELSE IF decision = "recommendation"
    THEN [agent |-> "recommendation", workflow_type |-> "agentic_recommendation"]
    ELSE [agent |-> None, workflow_type |-> "multi_agent"]

AgentConfig_generated == "thread_generated"

\* config = {"configurable": {"thread_id": thread_id}}
AgentConfig == call.thread_id

\* FastPathWorkflow.execute: the first matching case of the if/elif chain
FastPathCase(query) ==
    IF \E kw \in {"lista", "listar", "todas las campañas", "mis campañas"} :
           KwInQuery(kw, query)
    THEN "listar_campanas"
    ELSE IF KwInQuery("busca", query) \/ KwInQuery("id de", query)
    THEN "buscar_campana"
    ELSE IF \E kw \in {"métricas", "rendimiento global", "todas las métricas"} :
                KwInQuery(kw, query)
    THEN "metricas_globales"
    ELSE "no_reconocido"

FastPathExecute(query) ==
    LET c == FastPathCase(query)
    IN  WorkflowResult([kind |-> "fastpath", text |-> c], "simple",
                       [fallback |-> (c = "no_reconocido")])

\* category == "simple": result = self.fast_path.execute(query)
DispatchSimple ==
    /\ pc = "dispatch"
    /\ Branch(category) = "simple"
    /\ trace' = Append(trace, Called("fast_path.execute", None))
    /\ result' = [result |-> FastPathExecute(call.query), workflow_type |-> "simple"]
    /\ pc' = "metrics"
    /\ UNCHANGED <<call, category, coord_decision, multi, running, exc, outcome,
                   metrics, completed, ncalls, memVars, cmb, thr, api, dlt, fp, ag, rk>>

\* category == "agentic": coord_decision = self.coordinator.route(query) returns
CoordinatorReturn(a) ==
    /\ pc = "dispatch"
    /\ Branch(category) = "agentic"
    /\ trace' = Append(trace, Called("coordinator.route", None))
    /\ coord_decision' = a
    /\ pc' = "agent_selected"
    /\ UNCHANGED <<call, category, multi, running, exc, result, outcome,
                   metrics, completed, ncalls, memVars, cmb, thr, api, dlt, fp, ag, rk>>

\* self.coordinator.route(query) raises
CoordinatorRaise ==
    /\ pc = "dispatch"
    /\ Branch(category) = "agentic"
    /\ trace' = Append(trace, Called("coordinator.route", None))
    /\ Raise("coordinator_failed")
    /\ UNCHANGED <<call, category, coord_decision, multi, running, result,
                   metrics, ncalls, memVars, cmb, thr, api, dlt, fp, ag, rk>>

\* the final else handing an unknown category to the fast path
DispatchUnknown_to_fast_path ==
    /\ pc = "dispatch"
    /\ Branch(category) = "unknown"
    /\ trace' = Append(trace, Called("fast_path.execute", None))
    /\ result' = [result |-> FastPathExecute(call.query), workflow_type |-> "simple"]
    /\ pc' = "metrics"
    /\ UNCHANGED <<call, category, coord_decision, multi, running, exc, outcome,
                   metrics, completed, ncalls, memVars, cmb, thr, api, dlt, fp, ag, rk>>

\* the final else of the category chain: an unknown category
DispatchUnknown ==
    /\ pc = "dispatch"
    /\ Branch(category) = "unknown"
    /\ result' = [result |-> WorkflowResult([kind |-> "unknown_category", text |-> category],
                                            "error", [error |-> "unknown_category"]),
                  workflow_type |-> "error"]
    /\ pc' = "metrics"
    /\ UNCHANGED <<call, category, coord_decision, multi, running, trace, exc, outcome,
                   metrics, completed, ncalls, memVars, cmb, thr, api, dlt, fp, ag, rk>>

\* _execute_single_agent: agent.invoke(...) is entered
SingleInvoke(agent) ==
    /\ pc = "agent_selected"
    /\ SingleDispatch(coord_decision).agent = agent
    /\ trace' = Append(trace, Called(InvokeFn(agent), AgentConfig))
    /\ running' = running \cup {agent}
    /\ pc' = "single_wait"
    /\ UNCHANGED <<call, category, coord_decision, multi, exc, result, outcome,
                   metrics, completed, ncalls, memVars, cmb, thr, api, dlt, fp, ag, rk>>

\* agent.invoke returns; the WorkflowResult is built from the last message
SingleReturn(agent, answer) ==
    /\ pc = "single_wait"
    /\ agent \in running
    /\ running' = running \ {agent}
    /\ LET wt == SingleDispatch(coord_decision).workflow_type
       IN  result' = [result |-> WorkflowResult([kind |-> "answer", text |-> answer], wt,
                                                [agent |-> SplitAgent(wt)]),
                      workflow_type |-> wt]
    /\ pc' = "metrics"
    /\ UNCHANGED <<call, category, coord_decision, multi, trace, exc, outcome,
                   metrics, completed, ncalls, memVars, cmb, thr, api, dlt, fp, ag, rk>>

\* agent.invoke raises
SingleRaise(agent) ==
    /\ pc = "single_wait"
    /\ agent \in running
    /\ running' = running \ {agent}
    /\ Raise("agent_failed")
    /\ UNCHANGED <<call, category, coord_decision, multi, trace, result,
                   metrics, ncalls, memVars, cmb, thr, api, dlt, fp, ag, rk>>

\* _execute_multi_agent, the detection of the agents needed
\* the configuration specialist left out of the multi path
needs_config_never(query) == FALSE

\* needs_config = True
needs_config(query) == TRUE

needs_performance_no_default(query) ==
    \E kw \in PerformanceKeywords : KwInQuery(kw, query)

needs_performance(query) ==
    LET perf == \E kw \in PerformanceKeywords : KwInQuery(kw, query)
        rec == \E kw \in RecommendationKeywords : KwInQuery(kw, query)
    IN  IF ~perf /\ ~rec THEN TRUE ELSE perf

needs_recommendation(query) ==
    \E kw \in RecommendationKeywords : KwInQuery(kw, query)

Needs(query) ==
    [a \in Agents |->
        CASE a = "config" -> needs_config(query)
          [] a = "performance" -> needs_performance(query)
          [] a = "recommendation" -> needs_recommendation(query)]

SectionTitle(agent) ==
    CASE agent = "config" -> "Configuración Técnica"
      [] agent = "performance" -> "Rendimiento"
      [] agent = "recommendation" -> "Recomendaciones"

_combine_responses_in_invocation_order(responses, agents_used) ==
    [kind |-> "combined",
     header |-> Len(agents_used),
     sections |-> [i \in 1..Len(agents_used) |->
                      [title |-> SectionTitle(agents_used[i]),
                       body |-> responses[agents_used[i]]]]]

\* _combine_responses: a header with len(agents_used), then one section per key
\* present in responses, tested in the order config, performance, recommendation
_combine_responses(responses, agents_used) ==
    LET Section(a) == IF a \in DOMAIN responses
                      THEN <<[title |-> SectionTitle(a), body |-> responses[a]]>>
                      ELSE <<>>
    IN  [kind |-> "combined",
         header |-> Len(agents_used),
         sections |-> Section("config") \o Section("performance")
                        \o Section("recommendation")]

\* _execute_multi_agent is entered, from category multi_agent or from the
\* coordinator's final else
EnterMulti ==
    /\ \/ pc = "dispatch" /\ Branch(category) = "multi_agent"
       \/ pc = "agent_selected" /\ SingleDispatch(coord_decision).agent = None
    /\ multi' = [needs |-> Needs(call.query), i |-> 1,
                 agents_used |-> <<>>, responses |-> <<>>]
    /\ pc' = "multi"
    /\ UNCHANGED <<call, category, coord_decision, running, trace, exc, result, outcome,
                   metrics, completed, ncalls, memVars, cmb, thr, api, dlt, fp, ag, rk>>

\* if needs_<agent>: <agent>.invoke(...) is entered
MultiInvoke ==
    /\ pc = "multi"
    /\ multi.i <= Len(AgentOrder)
    /\ multi.needs[AgentOrder[multi.i]]
    /\ trace' = Append(trace, Called(InvokeFn(AgentOrder[multi.i]), AgentConfig))
    /\ running' = running \cup {AgentOrder[multi.i]}
    /\ pc' = "multi_wait"
    /\ UNCHANGED <<call, category, coord_decision, multi, exc, result, outcome,
                   metrics, completed, ncalls, memVars, cmb, thr, api, dlt, fp, ag, rk>>

\* if needs_<agent> is false: the block is skipped
MultiSkip ==
    /\ pc = "multi"
    /\ multi.i <= Len(AgentOrder)
    /\ ~multi.needs[AgentOrder[multi.i]]
    /\ multi' = [multi EXCEPT !.i = @ + 1]
    /\ UNCHANGED <<pc, call, category, coord_decision, running, trace, exc, result,
                   outcome, metrics, completed, ncalls, memVars, cmb, thr, api, dlt, fp, ag, rk>>

\* the invoke returns: responses[<agent>] = ...; agents_used.append(<agent>)
MultiReturn(answer) ==
    /\ pc = "multi_wait"
    /\ LET a == AgentOrder[multi.i]
       IN  /\ running' = running \ {a}
           /\ multi' = [multi EXCEPT !.i = @ + 1,
                                     !.agents_used = Append(@, a),
                                     !.responses = (a :> answer) @@ @]
    /\ pc' = "multi"
    /\ UNCHANGED <<call, category, coord_decision, trace, exc, result, outcome,
                   metrics, completed, ncalls, memVars, cmb, thr, api, dlt, fp, ag, rk>>

\* the invoke raises
MultiRaise ==
    /\ pc = "multi_wait"
    /\ running' = running \ {AgentOrder[multi.i]}
    /\ Raise("agent_failed")
    /\ UNCHANGED <<call, category, coord_decision, multi, trace, result,
                   metrics, ncalls, memVars, cmb, thr, api, dlt, fp, ag, rk>>

\* combined_content = self._combine_responses(responses, agents_used); the
\* strip() of the result removes outer blanks only and leaves the sections alone
MultiCombine ==
    /\ pc = "multi"
    /\ multi.i > Len(AgentOrder)
    /\ result' = [result |-> WorkflowResult(
                                 _combine_responses(multi.responses, multi.agents_used),
                                 "multi_agent", [agents_used |-> multi.agents_used]),
                  workflow_type |-> "multi_agent"]
    /\ pc' = "metrics"
    /\ UNCHANGED <<call, category, coord_decision, multi, running, trace, exc, outcome,
                   metrics, completed, ncalls, memVars, cmb, thr, api, dlt, fp, ag, rk>>

\* "Actualizar métricas", then return result
UpdateMetrics(elapsed_time) ==
    /\ pc = "metrics"
    /\ metrics' = IF result.workflow_type \in DOMAIN metrics
                  THEN [metrics EXCEPT ![result.workflow_type] =
                            [count |-> @.count + 1,
                             total_time |-> @.total_time + elapsed_time]]
                  ELSE metrics
    /\ outcome' = [kind |-> "returned", result |-> result.result]
    /\ completed' = [completed EXCEPT ![result.result.workflow_type] = @ + 1]
    /\ pc' = "idle"
    /\ UNCHANGED <<call, category, coord_decision, multi, running, trace, exc, result,
                   ncalls, memVars, cmb, thr, api, dlt, fp, ag, rk>>

\* except Exception as e: return WorkflowResult(... workflow_type="error" ...)
HandleException ==
    /\ pc = "except"
    /\ outcome' = [kind |-> "returned",
                   result |-> WorkflowResult([kind |-> "error", text |-> exc], "error",
                                             [error |-> exc])]
    /\ completed' = [completed EXCEPT !["error"] = @ + 1]
    /\ pc' = "idle"
    /\ UNCHANGED <<call, category, coord_decision, multi, running, trace, exc, result,
                   metrics, ncalls, memVars, cmb, thr, api, dlt, fp, ag, rk>>

\* round(x, 2) of n/d milliseconds, in hundredths of a second (ties to even)
Round2(n, d) ==
    LET q == n \div (10 * d)
        r == n % (10 * d)
    IN  IF 2 * r < 10 * d THEN q
        ELSE IF 2 * r > 10 * d THEN q + 1
        ELSE IF q % 2 = 0 THEN q ELSE q + 1

get_metrics(m) ==
    [wt \in DOMAIN m |->
        [total_queries |-> m[wt].count,
         total_time |-> Round2(m[wt].total_time, 1),
         avg_time |-> IF m[wt].count > 0 THEN Round2(m[wt].total_time, m[wt].count)
                      ELSE 0]]

(***************************************************************************)
(* The /query and /threads/{id}/runs handlers on the event loop            *)
(* (src/api/main.py).  A handler is a coroutine (`async def`) that contains *)
(* no await, and process_query is a plain blocking call: the event loop     *)
(* runs a handler from its first line to its return before it starts the    *)
(* handler of another request.  The agent is ready (AGENT_READY).           *)
(***************************************************************************)
RequestThreadIds == {None} \cup Sessions

\* thread_id = f"thread_{uuid.uuid4().hex[:12]}": a fresh id each time
GeneratedIds == <<"thread_g1", "thread_g2", "thread_g3", "thread_g4">>

\* the questions and specialist answers the requests of the model draw from
ApiQueries == {{"Gasto"}, {"mejorar"}}
ApiAnswers == {"r1"}

Requests == [thread_id : RequestThreadIds, query : ApiQueries]

\* the thread ids a list can be stored under
ThreadIds == Sessions \cup {GeneratedIds[i] : i \in 1..Len(GeneratedIds)}

\* the text of a question, as message content
QuestionText(query) == [kind |-> "question", words |-> query]

\* the effect of THREAD_MESSAGES.get(thread_id, []) on the dict
dict_get_effect_setdefault(tm, thread_id) ==
    IF thread_id \in DOMAIN tm THEN tm ELSE tm @@ (thread_id :> <<>>)

dict_get_effect(tm, thread_id) == tm

TurnMessages_answer_first(query, res) ==
    <<AIMessage(res.content), HumanMessage(QuestionText(query))>>

\* the two messages the handler stores for a request, in the order it adds them
TurnMessages(query, res) ==
    <<HumanMessage(QuestionText(query)), AIMessage(res.content)>>

InitApi ==
    api = [pending |-> {}, pc |-> "free", thread_id |-> None, query |-> {},
           messages |-> <<>>, store0 |-> <<>>, arrived |-> 0, generated |-> 0]

\* the event loop is not inside a handler
LoopFree == api.pc \in {"free", "done"}

\* a request reaches the server: its handler coroutine is scheduled
ApiArrive(t, q) ==
    /\ api.arrived < MaxCalls
    /\ [thread_id |-> t, query |-> q] \notin api.pending
    /\ api' = [api EXCEPT !.pending = @ \cup {[thread_id |-> t, query |-> q]},
                          !.arrived = @ + 1]
    /\ UNCHANGED <<memVars, orchVars, cmb, thr, dlt, fp, ag, rk>>

\* the loop starts the handler of a scheduled request: thread_id, then
\* messages = get_thread_messages(thread_id)
ApiGetMessages(r) ==
    /\ r \in api.pending
    /\ LoopFree
    /\ LET thread_id == IF r.thread_id = None THEN GeneratedIds[api.generated + 1]
                        ELSE r.thread_id
       IN  /\ THREAD_MESSAGES' = dict_get_effect(THREAD_MESSAGES, thread_id)
           /\ api' = [api EXCEPT
                         !.pending = @ \ {r},
                         !.pc = "got_messages",
                         !.thread_id = thread_id,
                         !.query = r.query,
                         !.messages = get_thread_messages(THREAD_MESSAGES, thread_id),
                         !.store0 = THREAD_MESSAGES,
                         !.generated = IF r.thread_id = None THEN @ + 1 ELSE @]
    /\ UNCHANGED <<hpc, appended, nreq, orchVars, cmb, thr, dlt, fp, ag, rk>>

\* result = orchestrator_v5.process_query(query=..., thread_id=..., messages=...)
ApiCallProcess ==
    /\ api.pc = "got_messages"
    /\ ProcessQueryEnter(api.query, api.thread_id, None, Given(api.messages))
    /\ api' = [api EXCEPT !.pc = "process_query"]
    /\ UNCHANGED memVars

\* process_query has returned: add_message_to_thread(thread_id, HumanMessage(...))
ApiAddHuman ==
    /\ api.pc = "process_query"
    /\ pc = "idle"
    /\ outcome.kind = "returned"
    /\ THREAD_MESSAGES' = add_message_to_thread(THREAD_MESSAGES, api.thread_id,
                                                TurnMessages(api.query, outcome.result)[1])
    /\ api' = [api EXCEPT !.pc = "add_ai"]
    /\ UNCHANGED <<hpc, appended, nreq, orchVars, cmb, thr, dlt, fp, ag, rk>>

\* add_message_to_thread(thread_id, AIMessage(content=result.content)), then
\* the response is returned
ApiAddAI ==
    /\ api.pc = "add_ai"
    /\ THREAD_MESSAGES' = add_message_to_thread(THREAD_MESSAGES, api.thread_id,
                                                TurnMessages(api.query, outcome.result)[2])
    /\ api' = [api EXCEPT !.pc = "done"]
    /\ UNCHANGED <<hpc, appended, nreq, orchVars, cmb, thr, dlt, fp, ag, rk>>

\* clear_thread_messages(thread_id), called while no handler is running
ApiClear(t) ==
    /\ LoopFree
    /\ t \in DOMAIN THREAD_MESSAGES
    /\ THREAD_MESSAGES' = clear_thread_messages(THREAD_MESSAGES, t)
    /\ api' = [api EXCEPT !.pc = "free"]
    /\ UNCHANGED <<hpc, appended, nreq, orchVars, cmb, thr, dlt, fp, ag, rk>>

ApiElapsed == 7

NextApi ==
    \/ \E t \in RequestThreadIds, q \in ApiQueries : ApiArrive(t, q)
    \/ \E r \in Requests : ApiGetMessages(r)
    \/ ApiCallProcess
    \/ \E c \in RouterCategories : ClassifyReturn(c)
    \/ ClassifyRaise
    \/ DispatchSimple
    \/ \E a \in CoordinatorAgents : CoordinatorReturn(a)
    \/ CoordinatorRaise
    \/ \E a \in Agents : SingleInvoke(a)
    \/ \E a \in Agents, r \in ApiAnswers : SingleReturn(a, r)
    \/ \E a \in Agents : SingleRaise(a)
    \/ EnterMulti
    \/ MultiInvoke
    \/ MultiSkip
    \/ \E r \in ApiAnswers : MultiReturn(r)
    \/ MultiRaise
    \/ MultiCombine
    \/ UpdateMetrics(ApiElapsed)
    \/ HandleException
    \/ ApiAddHuman
    \/ ApiAddAI
    \/ \E t \in ThreadIds : ApiClear(t)

(***************************************************************************)
(* The deltas of the comparison tools (performance_tools.py).  Metric      *)
(* values are whole numbers; a percentage is kept in hundredths of a       *)
(* percent, which is what round(x, 2) keeps of it.                         *)
(***************************************************************************)
MaxMetric == 15        \* largest metric value drawn

MetricValues == 0..MaxMetric

\* round(n / d) for d > 0, ties to even
RoundDiv(n, d) ==
    LET a == IF n < 0 THEN 0 - n ELSE n
        q == a \div d
        r == a % d
        m == IF 2 * r < d THEN q
             ELSE IF 2 * r > d THEN q + 1
             ELSE IF q % 2 = 0 THEN q ELSE q + 1
    IN  IF n < 0 THEN 0 - m ELSE m

\* round(((val1 - val2) / val2) * 100, 2), in hundredths of a percent
Porcentaje(val1, val2) == RoundDiv(10000 * (val1 - val2), val2)

\* comparar_periodos_func.calcular_delta
calcular_delta(val1, val2) ==
    IF val2 = 0
    THEN [absoluto |-> val1, porcentaje |-> 0]
    ELSE [absoluto |-> val1 - val2, porcentaje |-> Porcentaje(val1, val2)]

\* a value of the output JSON that may be null
Null == [null |-> TRUE]
Number(n) == [null |-> FALSE, value |-> n]

\* comparar_anuncios_func: "delta_conversiones_porcentaje"
delta_conversiones_porcentaje(actual, anterior) ==
    LET computed == anterior > 0
        delta_conversiones == IF computed THEN Porcentaje(actual, anterior) ELSE 0
    IN  \* round(delta_conversiones, 2) if delta_conversiones else None
        IF computed /\ actual # anterior THEN Number(delta_conversiones) ELSE Null

\* comparar_anuncios_func: "delta_cpa_porcentaje"; a cpa of 0 stands for the
\* two falsy values a cpa can have, None and 0
delta_cpa_porcentaje(actual, anterior) ==
    LET computed == actual # 0 /\ anterior # 0
        delta_cpa == IF computed THEN Porcentaje(actual, anterior) ELSE 0
    IN  \* round(delta_cpa, 2) if delta_cpa else None
        IF computed /\ actual # anterior THEN Number(delta_cpa) ELSE Null

InitDlt == dlt = [op |-> None]

\* comparar_periodos_func on a metric with value val1 in period 1 and val2 in
\* period 2
CompararPeriodos(val1, val2) ==
    /\ dlt' = [op |-> "comparar_periodos", current |-> val1, previous |-> val2,
               delta |-> calcular_delta(val1, val2)]
    /\ UNCHANGED <<memVars, orchVars, cmb, thr, api, fp, ag, rk>>

\* comparar_anuncios_func on an ad present in both periods
CompararAnuncios(actual, anterior) ==
    /\ dlt' = [op |-> "comparar_anuncios", current |-> actual, previous |-> anterior,
               delta_cpa_porcentaje |-> delta_cpa_porcentaje(actual, anterior),
               delta_conversiones_porcentaje |->
                   delta_conversiones_porcentaje(actual, anterior)]
    /\ UNCHANGED <<memVars, orchVars, cmb, thr, api, fp, ag, rk>>

NextDelta ==
    \/ \E val1 \in MetricValues, val2 \in MetricValues : CompararPeriodos(val1, val2)
    \/ \E actual \in MetricValues, anterior \in MetricValues :
           CompararAnuncios(actual, anterior)

(***************************************************************************)
(* FastPathWorkflow.execute on the text of a question (workflows/base.py). *)
(* A text is the sequence of its characters, so that `kw in query_lower`,  *)
(* index, slicing, strip and replace are computed as Python computes them. *)
(***************************************************************************)
MaxFastWords == 3      \* words per question text

\* the words the question texts are made of:
\*   Busca, lista, métricas, verano, id, de, '
FastWords ==
    {<<"B", "u", "s", "c", "a">>,
    <<"l", "i", "s", "t", "a">>,
    <<"m", "é", "t", "r", "i", "c", "a", "s">>,
    <<"v", "e", "r", "a", "n", "o">>,
    <<"i", "d">>,
    <<"d", "e">>,
    <<"'">>}

RECURSIVE TextJoin(_)
\* " ".join(words)
TextJoin(words) ==
    IF Len(words) = 1 THEN words[1]
    ELSE words[1] \o <<" ">> \o TextJoin(Tail(words))

FastQueries ==
    {TextJoin(ws) : ws \in UNION {[1..n -> FastWords] : n \in 1..MaxFastWords}}

\* str.lower()
TextLower(text) == [i \in 1..Len(text) |-> IF text[i] = "B" THEN "b" ELSE text[i]]

TextAt(kw, text, i) == i + Len(kw) - 1 <= Len(text) /\ SubSeq(text, i, i + Len(kw) - 1) = kw

\* kw in text
TextIn(kw, text) == \E i \in 1..Len(text) : TextAt(kw, text, i)

\* text.index(kw), counted from 1; used only where kw in text
TextIndex(text, kw) ==
    CHOOSE i \in 1..Len(text) : TextAt(kw, text, i) /\ \A j \in 1..(i - 1) : ~TextAt(kw, text, j)

RECURSIVE TextStrip(_)
\* str.strip()
TextStrip(text) ==
    IF text = <<>> THEN text
    ELSE IF Head(text) = " " THEN TextStrip(Tail(text))
    ELSE IF text[Len(text)] = " " THEN TextStrip(SubSeq(text, 1, Len(text) - 1))
    ELSE text

\* str.replace(ch, '')
TextRemove(text, ch) == SelectSeq(text, LAMBDA c : c # ch)

\* Caso 1: ["lista", "listar", "todas las campañas", "mis campañas"]
ListKeywords ==
    {<<"l", "i", "s", "t", "a">>,
    <<"l", "i", "s", "t", "a", "r">>,
    <<"t", "o", "d", "a", "s", " ", "l", "a", "s", " ", "c", "a", "m", "p", "a", "ñ", "a", "s">>,
    <<"m", "i", "s", " ", "c", "a", "m", "p", "a", "ñ", "a", "s">>}

\* Caso 2: "busca" in query_lower or "id de" in query_lower
SearchKeywords ==
    {<<"b", "u", "s", "c", "a">>,
    <<"i", "d", " ", "d", "e">>}

\* Caso 3: ["métricas", "rendimiento global", "todas las métricas"]
GlobalKeywords ==
    {<<"m", "é", "t", "r", "i", "c", "a", "s">>,
    <<"r", "e", "n", "d", "i", "m", "i", "e", "n", "t", "o", " ", "g", "l", "o", "b", "a", "l">>,
    <<"t", "o", "d", "a", "s", " ", "l", "a", "s", " ", "m", "é", "t", "r", "i", "c", "a", "s">>}

\* the if/elif chain tried in another order: global metrics, search, list
ExecuteEntry_metrics_first(query) ==
    LET query_lower == TextLower(query)
    IN  IF \E kw \in GlobalKeywords : TextIn(kw, query_lower) THEN "_metricas_globales"
        ELSE IF \E kw \in SearchKeywords : TextIn(kw, query_lower) THEN "_buscar_campana"
        ELSE IF \E kw \in ListKeywords : TextIn(kw, query_lower) THEN "_listar_campanas"
        ELSE "no_reconocido"

\* FastPathWorkflow.execute: the branch of the if/elif chain that is taken
ExecuteEntry(query) ==
    LET query_lower == TextLower(query)
    IN  IF \E kw \in ListKeywords : TextIn(kw, query_lower) THEN "_listar_campanas"
        ELSE IF \E kw \in SearchKeywords : TextIn(kw, query_lower) THEN "_buscar_campana"
        ELSE IF \E kw \in GlobalKeywords : TextIn(kw, query_lower) THEN "_metricas_globales"
        ELSE "no_reconocido"

\* patterns = ["busca ", "buscar ", "id de ", "campaña ", "campaña de "]
ExtractPatterns ==
    <<<<"b", "u", "s", "c", "a", " ">>,
      <<"b", "u", "s", "c", "a", "r", " ">>,
      <<"i", "d", " ", "d", "e", " ">>,
      <<"c", "a", "m", "p", "a", "ñ", "a", " ">>,
      <<"c", "a", "m", "p", "a", "ñ", "a", " ", "d", "e", " ">>>>

\* the Optional[str] _extract_campaign_name returns
NoName == [found |-> FALSE]
Name(nombre) == [found |-> TRUE, nombre |-> nombre]

\* FastPathWorkflow._extract_campaign_name
_extract_campaign_name(query) ==
    LET query_lower == TextLower(query)
        hits == {k \in 1..Len(ExtractPatterns) : TextIn(ExtractPatterns[k], query_lower)}
    IN  IF hits = {} THEN NoName
        ELSE LET k == CHOOSE h \in hits : \A g \in hits : h <= g
                 pattern == ExtractPatterns[k]
                 idx == TextIndex(query_lower, pattern)
                 nombre == TextStrip(SubSeq(query, idx + Len(pattern), Len(query)))
             IN  Name(TextRemove(TextRemove(nombre, "\""), "'"))

\* `not nombre`: None or the empty string
Falsy(nombre) == ~nombre.found \/ nombre.nombre = <<>>

\* the read-only operation each helper calls
EntryOperation(entry) ==
    IF entry = "_listar_campanas" THEN "listar_campanas_func"
    ELSE IF entry = "_buscar_campana" THEN "buscar_campana_por_nombre_func"
    ELSE "obtener_metricas_globales_func"

\* the ways an operation comes back to the helper that called it
OperationOutcomes(entry) ==
    IF entry = "_buscar_campana" THEN {"ok", "not_found"} ELSE {"ok", "error"}

EmptyDict == [k \in {} |-> TRUE]

InitFp == fp = [pc |-> "idle", query |-> <<>>, entry |-> None, ops |-> <<>>,
                out |-> [kind |-> "none"]]

\* FastPathWorkflow.execute(query) up to the operation it calls, or up to its
\* return when it calls none
FastExecute(query) ==
    /\ fp.pc = "idle"
    /\ LET entry == ExecuteEntry(query)
           nombre == _extract_campaign_name(query)
       IN  fp' = IF entry = "no_reconocido"
                 THEN [fp EXCEPT !.pc = "done", !.query = query, !.entry = entry,
                          !.out = WorkflowResult("Query no reconocida para FastPath",
                                                 "simple", [fallback |-> TRUE])]
                 ELSE IF entry = "_buscar_campana" /\ Falsy(nombre)
                 THEN [fp EXCEPT !.pc = "done", !.query = query, !.entry = entry,
                          !.out = WorkflowResult("No se pudo extraer nombre de campaña",
                                                 "simple", EmptyDict)]
                 ELSE [fp EXCEPT !.pc = "in_operation", !.query = query,
                          !.entry = entry,
                          !.ops = Append(@, EntryOperation(entry))]
    /\ UNCHANGED <<memVars, orchVars, cmb, thr, api, dlt, ag, rk>>

\* the operation returns and the helper formats its result
FastOperationReturn(r) ==
    /\ fp.pc = "in_operation"
    /\ r \in OperationOutcomes(fp.entry)
    /\ fp' = [fp EXCEPT !.pc = "done",
                 !.out = IF r = "error"
                         THEN WorkflowResult("Error", "simple", [error |-> "error"])
                         ELSE IF r = "not_found"
                         THEN WorkflowResult("No se encontró campaña", "simple",
                                             EmptyDict)
                         ELSE WorkflowResult(fp.entry, "simple", [data |-> fp.entry])]
    /\ UNCHANGED <<memVars, orchVars, cmb, thr, api, dlt, ag, rk>>

\* the operation raises: except Exception as e
FastOperationRaise ==
    /\ fp.pc = "in_operation"
    /\ fp' = [fp EXCEPT !.pc = "done",
                 !.out = WorkflowResult("Error", "simple", [error |-> "exception"])]
    /\ UNCHANGED <<memVars, orchVars, cmb, thr, api, dlt, ag, rk>>

NextFast ==
    \/ \E query \in FastQueries : FastExecute(query)
    \/ \E r \in {"ok", "error", "not_found"} : FastOperationReturn(r)
    \/ FastOperationRaise

(***************************************************************************)
(* The specialists (agents/config_agent.py, performance_agent.py,          *)
(* recommendation_agent.py): a graph call_llm -> execute_tools -> call_llm *)
(* over a message list kept by the graph's own checkpointer, and the       *)
(* invokes process_query makes on them.                                    *)
(***************************************************************************)
MaxToolCalls == 3      \* tool calls the model emits per behaviour
MaxRounds == 2         \* responses with tool calls per behaviour

config_tool_map ==
    {"ListarCampanasInput", "BuscarCampanaPorNombreInput", "ObtenerDetallesCampanaInput",
     "ObtenerPresupuestoInput", "ObtenerEstrategiaPujaInput"}

performance_tool_map ==
    {"BuscarCampanaPorNombreInput", "ObtenerMetricasCampanaInput",
     "ObtenerMetricasGlobalesInput", "ObtenerRankingCampanasInput",
     "ObtenerAnunciosPorRendimientoInput", "ObtenerMetricasAnuncioInput",
     "CompararAnunciosInput", "CompararAnunciosGlobalesInput", "CompararPeriodosInput",
     "ObtenerMetricasPorDestinoInput", "CompararDestinosInput", "ObtenerCPAGlobalInput",
     "ObtenerMetricasAdsetInput", "ObtenerFunnelConversionesInput"}

recommendation_tool_map ==
    {"BuscarCampanaPorNombreInput", "ObtenerRecomendacionesInput",
     "AnalizarOpportunidadInput"}

tool_map(agent) ==
    CASE agent = "config" -> config_tool_map
      [] agent = "performance" -> performance_tool_map
      [] agent = "recommendation" -> recommendation_tool_map

\* the tool names the language model's responses are drawn from: one every
\* specialist has, one only the performance specialist has
EmittedTools == {"BuscarCampanaPorNombreInput", "ObtenerMetricasCampanaInput"}

\* tool_input_class(**tool_args) and tool_func(tool_input) return, or one of
\* them raises
ToolOutcomes == {"ok", "raises"}

AgentQueries == {{"Gasto"}, {"mejorar"}, {"Gasto", "mejorar"}}

\* the AIMessage llm_with_tools.invoke returns
LLMResponse(tool_calls) ==
    [type |-> "ai", tool_calls |-> tool_calls,
     content |-> IF tool_calls = <<>> THEN "r1" ELSE ""]

ToolMessage(content, tool_call_id) ==
    [type |-> "tool", content |-> content, tool_call_id |-> tool_call_id]

\* hasattr(last_message, 'tool_calls') and last_message.tool_calls
HasToolCalls(messages) ==
    /\ messages # <<>>
    /\ messages[Len(messages)].type = "ai"
    /\ messages[Len(messages)].tool_calls # <<>>

\* the reducer of the state's messages replaced by plain assignment
add_messages_overwrite(x, y) == y

\* messages: Annotated[List[BaseMessage], lambda x, y: x + y]
add_messages(x, y) == x \o y

\* should_continue_* that stops after the first response whatever it asks for
should_continue_always_end(messages) == "end"

\* should_continue_config / _performance / _recommendation
should_continue(messages) ==
    IF HasToolCalls(messages) THEN "execute_tools" ELSE "end"

\* the body of the for loop of execute_*_tools for one tool call
ToolResult(agent, tool_call, how) ==
    IF tool_call.name \notin tool_map(agent)
    THEN ToolMessage([kind |-> "Error: Herramienta no encontrada",
                      tool_name |-> tool_call.name], tool_call.id)
    ELSE IF how = "raises"
    THEN ToolMessage([kind |-> "Error ejecutando", tool_name |-> tool_call.name],
                     tool_call.id)
    ELSE ToolMessage([kind |-> "content", tool_name |-> tool_call.name], tool_call.id)

\* the for loop left at the first tool call that gives an error
execute_tools_stop_at_error(agent, messages, outcomes) ==
    IF ~HasToolCalls(messages) THEN <<>>
    ELSE LET tool_calls == messages[Len(messages)].tool_calls
             results == [i \in 1..Len(tool_calls) |->
                            ToolResult(agent, tool_calls[i], outcomes[i])]
             bad == {i \in 1..Len(tool_calls) : results[i].content.kind # "content"}
         IN  IF bad = {} THEN results
             ELSE SubSeq(results, 1, CHOOSE i \in bad : \A j \in bad : i <= j)

\* execute_config_tools / execute_performance_tools /
\* execute_recommendation_tools: the messages the node returns
execute_tools(agent, messages, outcomes) ==
    IF ~HasToolCalls(messages) THEN <<>>
    ELSE LET tool_calls == messages[Len(messages)].tool_calls
         IN  [i \in 1..Len(tool_calls) |-> ToolResult(agent, tool_calls[i], outcomes[i])]

\* the agents _execute_multi_agent invokes, in the order of its if blocks
MultiPlan(query) == SelectSeq(AgentOrder, LAMBDA a : Needs(query)[a])

OutcomeSeqs(n) == IF n = 0 THEN {<<>>} ELSE [1..n -> ToolOutcomes]

InitAg ==
    ag = [pc |-> "idle", query |-> {}, mode |-> None, plan |-> <<>>, agent |-> None,
          store |-> [a \in Agents |-> <<>>],      \* each graph's MemorySaver
          before |-> <<>>,                        \* history: messages before the last node
          node |-> None,                          \* history: the last node run
          nid |-> 0,                              \* tool calls emitted so far
          rounds |-> 0,                           \* responses with tool calls so far
          llm_calls |-> 0, tool_runs |-> 0,       \* history: per invoke
          outcomes |-> <<>>,                      \* history: how the last tools ended
          agents_used |-> <<>>, responses |-> <<>>]

\* _execute_single_agent(agent, query, config, workflow_type) is entered
AgentSingle(query, agent) ==
    /\ ag.pc = "idle"
    /\ ag' = [ag EXCEPT !.pc = "invoke", !.query = query, !.mode = "single",
                        !.plan = <<agent>>]
    /\ UNCHANGED <<memVars, orchVars, cmb, thr, api, dlt, fp, rk>>

\* _execute_multi_agent(query, config) is entered
AgentMulti(query) ==
    /\ ag.pc = "idle"
    /\ ag' = [ag EXCEPT !.pc = "invoke", !.query = query, !.mode = "multi",
                        !.plan = MultiPlan(query)]
    /\ UNCHANGED <<memVars, orchVars, cmb, thr, api, dlt, fp, rk>>

\* <agent>.invoke({"messages": [HumanMessage(content=query)]}, config=config):
\* the input is merged into the thread's checkpoint and call_llm is entered
AgentInvoke ==
    /\ ag.pc = "invoke"
    /\ LET agent == Head(ag.plan)
       IN  ag' = [ag EXCEPT !.pc = "call_llm", !.agent = agent,
                            !.before = ag.store[agent], !.node = "input",
                            !.store[agent] = add_messages(@, <<HumanMessage(ag.query)>>),
                            !.llm_calls = 0, !.tool_runs = 0]
    /\ UNCHANGED <<memVars, orchVars, cmb, thr, api, dlt, fp, rk>>

\* call_*_llm returns {"messages": [response]}, then the conditional edge
AgentCallLLM(names) ==
    /\ ag.pc = "call_llm"
    /\ names # <<>> => ag.rounds < MaxRounds /\ ag.nid + Len(names) <= MaxToolCalls
    /\ LET response == LLMResponse([i \in 1..Len(names) |->
                                       [name |-> names[i], id |-> ag.nid + i]])
           messages == add_messages(ag.store[ag.agent], <<response>>)
       IN  ag' = [ag EXCEPT !.pc = should_continue(messages),
                            !.before = ag.store[ag.agent], !.node = "call_llm",
                            !.store[ag.agent] = messages,
                            !.nid = @ + Len(names),
                            !.rounds = IF names = <<>> THEN @ ELSE @ + 1,
                            !.llm_calls = @ + 1]
    /\ UNCHANGED <<memVars, orchVars, cmb, thr, api, dlt, fp, rk>>

\* llm_with_tools.invoke raises: the exception leaves <agent>.invoke
AgentLLMRaise ==
    /\ ag.pc = "call_llm"
    /\ ag' = [ag EXCEPT !.pc = "raised", !.before = ag.store[ag.agent],
                        !.node = "call_llm", !.llm_calls = @ + 1]
    /\ UNCHANGED <<memVars, orchVars, cmb, thr, api, dlt, fp, rk>>

\* execute_*_tools returns {"messages": results}, then the edge to call_llm
AgentExecuteTools(outcomes) ==
    /\ ag.pc = "execute_tools"
    /\ LET messages == ag.store[ag.agent]
           tool_calls == messages[Len(messages)].tool_calls
       IN  /\ outcomes \in OutcomeSeqs(Len(tool_calls))
           /\ \A i \in 1..Len(tool_calls) :
                  tool_calls[i].name \notin tool_map(ag.agent) => outcomes[i] = "ok"
           /\ ag' = [ag EXCEPT !.pc = "call_llm",
                        !.before = messages, !.node = "execute_tools",
                        !.store[ag.agent] =
                            add_messages(@, execute_tools(ag.agent, messages, outcomes)),
                        !.tool_runs = @ + 1, !.outcomes = outcomes]
    /\ UNCHANGED <<memVars, orchVars, cmb, thr, api, dlt, fp, rk>>

\* the graph reached END: invoke returns the state and the caller keeps the
\* content of the last message
AgentReturn ==
    /\ ag.pc = "end"
    /\ LET messages == ag.store[ag.agent]
       IN  ag' = [ag EXCEPT !.pc = IF Tail(ag.plan) = <<>> THEN "done" ELSE "invoke",
                            !.plan = Tail(@),
                            !.agents_used = Append(@, ag.agent),
                            !.responses = Append(@, messages[Len(messages)].content)]
    /\ UNCHANGED <<memVars, orchVars, cmb, thr, api, dlt, fp, rk>>

NextAgent ==
    \/ \E query \in AgentQueries, agent \in Agents : AgentSingle(query, agent)
    \/ \E query \in AgentQueries : AgentMulti(query)
    \/ AgentInvoke
    \/ \E names \in UNION {IF n = 0 THEN {<<>>} ELSE [1..n -> EmittedTools] :
                            n \in 0..MaxToolCalls} : AgentCallLLM(names)
    \/ AgentLLMRaise
    \/ \E outcomes \in UNION {OutcomeSeqs(n) : n \in 1..MaxToolCalls} :
           AgentExecuteTools(outcomes)
    \/ AgentReturn

(***************************************************************************)
(* obtener_anuncios_por_rendimiento_func (performance_tools.py): the ads of *)
(* a campaign ordered by a metric.  Money is kept in cents, which is what  *)
(* round(x, 2) keeps of an amount in euros.                                *)
(***************************************************************************)
MaxAds == 2            \* ads the insights of a campaign hold
MaxLimit == 2          \* largest `limite` asked for

\* the insights rows the platform may return for one ad
Insights ==
    [spend : {500, 1000}, clicks : {0, 4}, ctr : {1, 2}, conversions : {0, 3}]

OrderMetrics == {"clicks", "ctr", "conversiones", "cpa", "cpc"}

\* the dict appended to `anuncios` for the insight at position i
Anuncio(insight, i) ==
    [ad_id |-> i,
     clicks |-> insight.clicks,
     ctr |-> insight.ctr,
     cpc |-> IF insight.clicks > 0 THEN RoundDiv(insight.spend, insight.clicks) ELSE 0,
     conversiones_total |-> insight.conversions,
     \* round(cpa_total, 2) if cpa_total != float('inf') else None
     cpa_total |-> IF insight.conversions > 0
                   THEN Number(RoundDiv(insight.spend, insight.conversions))
                   ELSE Null]

\* metrica_key_map.get(input.ordenar_por.lower(), ("clicks", True))
metrica_key_map(ordenar_por) ==
    CASE ordenar_por = "clicks" -> [sort_key |-> "clicks", reverse_order |-> TRUE]
      [] ordenar_por = "ctr" -> [sort_key |-> "ctr", reverse_order |-> TRUE]
      [] ordenar_por = "conversiones" ->
             [sort_key |-> "conversiones_total", reverse_order |-> TRUE]
      [] ordenar_por = "cpa" -> [sort_key |-> "cpa_total", reverse_order |-> FALSE]
      [] ordenar_por = "cpc" -> [sort_key |-> "cpc", reverse_order |-> FALSE]
      [] OTHER -> [sort_key |-> "clicks", reverse_order |-> TRUE]

\* key=lambda x: x.get(sort_key, 0) or 0
SortKey(x, sort_key) ==
    IF sort_key = "cpa_total"
    THEN (IF x.cpa_total.null THEN 0 ELSE x.cpa_total.value)
    ELSE x[sort_key]

\* list.sort(key=..., reverse=...): stable, equal keys keep their order
SortedBy(anuncios, sort_key, reverse_order) ==
    LET Before(i, j) ==
            LET ki == SortKey(anuncios[i], sort_key)
                kj == SortKey(anuncios[j], sort_key)
            IN  \/ (IF reverse_order THEN ki > kj ELSE ki < kj)
                \/ ki = kj /\ i < j
        Place(i) == 1 + Cardinality({j \in 1..Len(anuncios) : Before(j, i)})
    IN  [p \in 1..Len(anuncios) |->
            anuncios[CHOOSE i \in 1..Len(anuncios) : Place(i) = p]]

InitRk == rk = [op |-> None]

\* obtener_anuncios_por_rendimiento_func on a campaign whose insights are
\* `insights`
ObtenerAnunciosPorRendimiento(insights, ordenar_por, limite) ==
    /\ rk.op = None
    /\ LET anuncios == [i \in 1..Len(insights) |-> Anuncio(insights[i], i)]
           key == metrica_key_map(ordenar_por)
           sorted == SortedBy(anuncios, key.sort_key, key.reverse_order)
       IN  rk' = [op |-> "obtener_anuncios_por_rendimiento",
                  insights |-> insights, ordenar_por |-> ordenar_por,
                  limite |-> limite,
                  total_anuncios |-> Len(sorted),
                  \* anuncios[:input.limite]
                  top_anuncios |-> SubSeq(sorted, 1, Min(limite, Len(sorted)))]
    /\ UNCHANGED <<memVars, orchVars, cmb, thr, api, dlt, fp, ag>>

NextRank ==
    /\ rk.op = None
    /\ \E insights \in UNION {[1..n -> Insights] : n \in 1..MaxAds}, ordenar_por \in OrderMetrics, limite \in 0..MaxLimit :
           ObtenerAnunciosPorRendimiento(insights, ordenar_por, limite)

InitCmb == cmb = [responses |-> <<>>, agents_used |-> <<>>, out |-> [kind |-> "none"]]

Threads == {1, 2}

InitThr ==
    thr = [t |-> [x \in Threads |-> [pc |-> "idle", workflow_type |-> None,
                                     elapsed_time |-> 0, tmp |-> 0, calls |-> 0]],
           time |-> [l \in MetricLabels |-> 0]]

Init ==
    /\ InitMemVars /\ InitOrchVars /\ InitCmb /\ InitThr /\ InitApi /\ InitDlt
    /\ InitFp /\ InitAg /\ InitRk

Next ==
    \/ \E q \in Queries, tid \in {None, "thread_a"}, fw \in ForceValues :
           ProcessQuery(q, tid, fw)
    \/ ClassifyForced
    \/ \E c \in RouterCategories : ClassifyReturn(c)
    \/ ClassifyRaise
    \/ DispatchSimple
    \/ \E a \in CoordinatorAgents : CoordinatorReturn(a)
    \/ CoordinatorRaise
    \/ DispatchUnknown
    \/ \E a \in Agents : SingleInvoke(a)
    \/ \E a \in Agents, r \in Answers : SingleReturn(a, r)
    \/ \E a \in Agents : SingleRaise(a)
    \/ EnterMulti
    \/ MultiInvoke
    \/ MultiSkip
    \/ \E r \in Answers : MultiReturn(r)
    \/ MultiRaise
    \/ MultiCombine
    \/ \E e \in ElapsedChoices : UpdateMetrics(e)
    \/ HandleException

Spec == Init /\ [][Next]_vars

(***************************************************************************)
(* _combine_responses applied to responses collected in any order          *)
(***************************************************************************)
\* responses[agent] = ...; agents_used.append(agent)
CollectResponse(a, r) ==
    /\ cmb.out.kind = "none"
    /\ a \notin DOMAIN cmb.responses
    /\ cmb' = [cmb EXCEPT !.responses = (a :> r) @@ @,
                          !.agents_used = Append(@, a)]
    /\ UNCHANGED <<memVars, orchVars, thr, api, dlt, fp, ag, rk>>

CombineResponses ==
    /\ cmb.out.kind = "none"
    /\ cmb' = [cmb EXCEPT !.out = _combine_responses(cmb.responses, cmb.agents_used)]
    /\ UNCHANGED <<memVars, orchVars, thr, api, dlt, fp, ag, rk>>

NextCombine ==
    \/ \E a \in Agents, r \in Answers : CollectResponse(a, r)
    \/ CombineResponses

SpecCombine == Init /\ [][NextCombine]_vars

(***************************************************************************)
(* Two threads inside process_query.  self.metrics is one dict shared by   *)
(* every caller and process_query takes no lock; `d[k] += x` is a read of   *)
(* d[k] followed by a write, and another thread may run in between.        *)
(***************************************************************************)
\* lines 77-141 of a call that reaches "Actualizar métricas" with the local
\* workflow_type = wt after elapsed_time = e
ConcReachMetrics(t, wt, e) ==
    /\ thr.t[t].pc = "idle"
    /\ thr.t[t].calls < MaxThreadCalls
    /\ thr' = [thr EXCEPT !.t[t] = [@ EXCEPT !.pc = "check", !.workflow_type = wt,
                                            !.elapsed_time = e]]
    /\ UNCHANGED <<memVars, orchVars, cmb, api, dlt, fp, ag, rk>>

\* if workflow_type in self.metrics
ConcCheck(t) ==
    /\ thr.t[t].pc = "check"
    /\ thr' = [thr EXCEPT !.t[t].pc = IF thr.t[t].workflow_type \in DOMAIN metrics
                                      THEN "load_count" ELSE "return"]
    /\ UNCHANGED <<memVars, orchVars, cmb, api, dlt, fp, ag, rk>>

\* self.metrics[workflow_type]["count"] += 1, the read
ConcLoadCount(t) ==
    /\ thr.t[t].pc = "load_count"
    /\ thr' = [thr EXCEPT !.t[t] = [@ EXCEPT !.pc = "store_count",
                                            !.tmp = metrics[thr.t[t].workflow_type].count]]
    /\ UNCHANGED <<memVars, orchVars, cmb, api, dlt, fp, ag, rk>>

\* self.metrics[workflow_type]["count"] += 1, the write
ConcStoreCount(t) ==
    /\ thr.t[t].pc = "store_count"
    /\ metrics' = [metrics EXCEPT ![thr.t[t].workflow_type].count = thr.t[t].tmp + 1]
    /\ thr' = [thr EXCEPT !.t[t].pc = "load_time"]
    /\ UNCHANGED <<memVars, pc, call, category, coord_decision, multi, running, trace,
                   exc, result, outcome, completed, ncalls, cmb, api, dlt, fp, ag, rk>>

\* self.metrics[workflow_type]["total_time"] += elapsed_time, the read
ConcLoadTime(t) ==
    /\ thr.t[t].pc = "load_time"
    /\ thr' = [thr EXCEPT !.t[t] = [@ EXCEPT !.pc = "store_time",
                                            !.tmp = metrics[thr.t[t].workflow_type].total_time]]
    /\ UNCHANGED <<memVars, orchVars, cmb, api, dlt, fp, ag, rk>>

\* self.metrics[workflow_type]["total_time"] += elapsed_time, the write
ConcStoreTime(t) ==
    /\ thr.t[t].pc = "store_time"
    /\ metrics' = [metrics EXCEPT ![thr.t[t].workflow_type].total_time =
                                       thr.t[t].tmp + thr.t[t].elapsed_time]
    /\ thr' = [thr EXCEPT !.t[t].pc = "return"]
    /\ UNCHANGED <<memVars, pc, call, category, coord_decision, multi, running, trace,
                   exc, result, outcome, completed, ncalls, cmb, api, dlt, fp, ag, rk>>

\* return result
ConcReturn(t) ==
    /\ thr.t[t].pc = "return"
    /\ LET wt == thr.t[t].workflow_type
       IN  /\ completed' = [completed EXCEPT ![wt] = @ + 1]
           /\ thr' = [thr EXCEPT !.t[t] = [@ EXCEPT !.pc = "idle", !.calls = @ + 1],
                                 !.time = IF wt \in DOMAIN thr.time
                                          THEN [@ EXCEPT ![wt] = @ + thr.t[t].elapsed_time]
                                          ELSE @]
    /\ UNCHANGED <<memVars, pc, call, category, coord_decision, multi, running, trace,
                   exc, result, outcome, metrics, ncalls, cmb, api, dlt, fp, ag, rk>>

NextConc ==
    \/ \E t \in Threads, wt \in AllLabels, e \in ElapsedChoices : ConcReachMetrics(t, wt, e)
    \/ \E t \in Threads : ConcCheck(t)
    \/ \E t \in Threads : ConcLoadCount(t)
    \/ \E t \in Threads : ConcStoreCount(t)
    \/ \E t \in Threads : ConcLoadTime(t)
    \/ \E t \in Threads : ConcStoreTime(t)
    \/ \E t \in Threads : ConcReturn(t)

SpecConc == Init /\ [][NextConc]_vars

NextMem ==
    \/ \E s \in Sessions : HandlerAddHuman(s)
    \/ \E s \in Sessions : HandlerAddAI(s)
    \/ \E s \in Sessions : ClearThread(s)

SpecMem == Init /\ [][NextMem]_vars

SpecApi == Init /\ [][NextApi]_vars

SpecDelta == Init /\ [][NextDelta]_vars

SpecFast == Init /\ [][NextFast]_vars

SpecRank == Init /\ [][NextRank]_vars

SpecAgent == Init /\ [][NextAgent]_vars

\* a specialist that has work to do is run: invoke, the nodes and the return
\* are steps of one thread that is never suspended for ever
SpecAgentLive == Init /\ [][NextAgent]_vars /\ WF_vars(NextAgent)

(***************************************************************************)
(* Reading the history of a call                                           *)
(***************************************************************************)
InvokeFns == {"config_agent.invoke", "performance_agent.invoke",
              "recommendation_agent.invoke"}

AgentOfFn(fn) ==
    CASE fn = "config_agent.invoke" -> "config"
      [] fn = "performance_agent.invoke" -> "performance"
      [] fn = "recommendation_agent.invoke" -> "recommendation"

CallsOf(fn) == Cardinality({i \in 1..Len(trace) : trace[i].fn = fn})

IsInvoke(e) == e.fn \in InvokeFns

\* the specialists invoked during the call, in order
InvokedSeq ==
    LET inv == SelectSeq(trace, IsInvoke)
    IN  [i \in 1..Len(inv) |-> AgentOfFn(inv[i].fn)]

Invoked == {InvokedSeq[i] : i \in 1..Len(InvokedSeq)}

\* the call has ended
Finished == pc = "idle" /\ ncalls > 0

ReturnedLabel == outcome.result.workflow_type

(***************************************************************************)
(* C1.  Bounded memory, as amended: get(thread) is always the last          *)
(* min(N, 20) MESSAGES added to the thread since it was created or cleared, *)
(* in the order they were added; a question/answer pair takes two          *)
(* messages, so 20 messages are the 10 most recent pairs.                  *)
(***************************************************************************)
C1_Last20Messages ==
    \A s \in Sessions :
        LET got == get_thread_messages(THREAD_MESSAGES, s)
            all == appended[s]
            k == Min(Len(all), 20)
        IN  /\ Len(got) = k
            /\ \A i \in 1..k : got[i] = all[Len(all) - k + i]

C1_Witness ==
    \E s \in Sessions :
        /\ hpc = None
        /\ Len(appended[s]) > 20
        /\ Len(get_thread_messages(THREAD_MESSAGES, s)) = 20

\* C1 as stated: after N question/answer pairs, get returns the most recent
\* min(N, 20) pairs.
C1_Last20Turns ==
    \A s \in Sessions :
        hpc = None =>
            LET got == get_thread_messages(THREAD_MESSAGES, s)
                all == appended[s]
                k == Min(Len(all) \div 2, 20)
            IN  /\ Len(got) = 2 * k
                /\ \A i \in 1..(2 * k) : got[i] = all[Len(all) - 2 * k + i]

(***************************************************************************)
(* C2.  process_query never hands an exception to its caller: whatever      *)
(* raised (the router, the coordinator, a specialist), the call ends by    *)
(* returning one WorkflowResult whose content carries the error message    *)
(* and whose workflow_type is "error"; every call returns exactly one      *)
(* result.                                                                 *)
(***************************************************************************)
C2_NeverPropagates ==
    /\ outcome.kind # "raised"
    /\ Finished => outcome.kind = "returned"
    /\ (Finished /\ exc # None) =>
           /\ outcome.result.workflow_type = "error"
           /\ outcome.result.content = [kind |-> "error", text |-> exc]
    /\ pc = "idle" =>
           completed["simple"] + completed["agentic_config"]
             + completed["agentic_performance"] + completed["agentic_recommendation"]
             + completed["multi_agent"] + completed["error"] = ncalls

C2_Witness ==
    /\ Finished
    /\ exc = "agent_failed"
    /\ Len(multi.agents_used) = 1
    /\ outcome.kind = "returned"
    /\ outcome.result.workflow_type = "error"

(***************************************************************************)
(* C3.  On category agentic, as amended: the coordinator is called exactly  *)
(* once; if it chooses config, performance or recommendation then exactly  *)
(* that specialist is invoked, exactly once, and no other, and the         *)
(* returned label names that specialist WHEN THE INVOCATION RETURNS (when  *)
(* it raises the label is "error"); if it chooses multi the multi-agent    *)
(* path is executed and the label is "multi_agent" when no specialist      *)
(* raises, "error" otherwise.                                              *)
(***************************************************************************)
C3_ExpectedLabel(decision) ==
    CASE decision = "config" -> "agentic_config"
      [] decision = "performance" -> "agentic_performance"
      [] decision = "recommendation" -> "agentic_recommendation"
      [] decision = "multi" -> "multi_agent"

C3_SpecialistPath ==
    (Finished /\ category = "agentic") =>
        /\ CallsOf("coordinator.route") = 1
        /\ coord_decision \in Agents =>
               /\ InvokedSeq = <<coord_decision>>
               /\ multi.i = 0
        /\ coord_decision = "multi" => multi.i >= 1
        /\ coord_decision # None =>
               ReturnedLabel = IF exc = None THEN C3_ExpectedLabel(coord_decision)
                               ELSE "error"

C3_Witness ==
    /\ Finished
    /\ category = "agentic"
    /\ coord_decision = "recommendation"
    /\ InvokedSeq = <<"recommendation">>
    /\ ReturnedLabel = "agentic_recommendation"

\* C3 as stated: the returned label always names the chosen specialist (or
\* the multi-agent path).
C3_LabelAlwaysNamesChoice ==
    (Finished /\ category = "agentic") =>
        /\ CallsOf("coordinator.route") = 1
        /\ coord_decision \in Agents =>
               /\ InvokedSeq = <<coord_decision>>
               /\ multi.i = 0
        /\ coord_decision = "multi" => multi.i >= 1
        /\ coord_decision # None => ReturnedLabel = C3_ExpectedLabel(coord_decision)

(***************************************************************************)
(* C4.  On category multi_agent the coordinator is never called during     *)
(* the call; on category simple neither the coordinator nor any specialist *)
(* is called and fast_path.execute is called exactly once.                 *)
(***************************************************************************)
C4_DirectAndMulti ==
    /\ category = "multi_agent" => CallsOf("coordinator.route") = 0
    /\ category = "simple" =>
           /\ CallsOf("coordinator.route") = 0
           /\ Invoked = {}
           /\ CallsOf("fast_path.execute") <= 1
           /\ Finished => CallsOf("fast_path.execute") = 1

C4_Witness ==
    /\ Finished
    /\ completed["simple"] = 1
    /\ category = "multi_agent"
    /\ ReturnedLabel = "multi_agent"
    /\ Len(InvokedSeq) >= 2

(***************************************************************************)
(* C5.  Merge order: in the combined answer the sections appear in the     *)
(* order config, performance, recommendation for every subset of           *)
(* specialists and whatever the order in which their answers were          *)
(* collected; a section is present exactly when that specialist was        *)
(* invoked, and it carries that specialist's answer.                        *)
(***************************************************************************)
C5_Rank(title) ==
    CASE title = "Configuración Técnica" -> 1
      [] title = "Rendimiento" -> 2
      [] title = "Recomendaciones" -> 3

C5_Collected == {cmb.agents_used[i] : i \in 1..Len(cmb.agents_used)}

C5_MergeOrder ==
    cmb.out.kind = "combined" =>
        LET secs == cmb.out.sections
        IN  /\ \A i, j \in 1..Len(secs) :
                   i < j => C5_Rank(secs[i].title) < C5_Rank(secs[j].title)
            /\ \A a \in Agents :
                   (\E i \in 1..Len(secs) : secs[i].title = SectionTitle(a))
                       <=> a \in C5_Collected
            /\ \A i \in 1..Len(secs) :
                   \E a \in C5_Collected :
                       /\ secs[i].title = SectionTitle(a)
                       /\ secs[i].body = cmb.responses[a]

C5_Witness ==
    /\ cmb.out.kind = "combined"
    /\ cmb.agents_used = <<"recommendation", "performance", "config">>
    /\ Len(cmb.out.sections) = 3
    /\ cmb.out.sections[1].title = "Configuración Técnica"

(***************************************************************************)
(* C6.  Multi-agent selection, as amended: the specialists selected are    *)
(* config always, performance when the question holds a performance        *)
(* keyword or no keyword of either kind, recommendation when it holds an   *)
(* optimization keyword; they are invoked in that order and the run stops  *)
(* at the first invocation that raises, so config is invoked in every run  *)
(* and the selected specialists are all invoked, and no other, WHEN NO     *)
(* INVOCATION RAISES.                                                      *)
(***************************************************************************)
C6_PerfKw(q) == \E kw \in PerformanceKeywords : \E w \in q : Substr(kw, Lower(w))
C6_RecKw(q) == \E kw \in RecommendationKeywords : \E w \in q : Substr(kw, Lower(w))

C6_Selected(q) ==
    <<"config">>
      \o (IF C6_PerfKw(q) \/ (~C6_PerfKw(q) /\ ~C6_RecKw(q))
          THEN <<"performance">> ELSE <<>>)
      \o (IF C6_RecKw(q) THEN <<"recommendation">> ELSE <<>>)

C7_Sequential ==
    multi.i >= 1 =>
        /\ Cardinality(running) <= 1
        /\ running # {} =>
               /\ pc = "multi_wait"
               /\ running = {InvokedSeq[Len(InvokedSeq)]}
               /\ Len(multi.agents_used) = Len(InvokedSeq) - 1
        /\ \A i, j \in 1..Len(InvokedSeq) : i # j => InvokedSeq[i] # InvokedSeq[j]
        /\ \A i \in 1..Len(trace) :
               IsInvoke(trace[i]) =>
                   /\ trace[i].query = call.query
                   /\ trace[i].thread_id = call.thread_id

C7_Witness ==
    /\ pc = "multi_wait"
    /\ call.thread_id = "thread_a"
    /\ InvokedSeq = <<"config", "performance", "recommendation">>
    /\ multi.agents_used = <<"config", "performance">>
    /\ running = {"recommendation"}

(***************************************************************************)
(* C8.  A call that ends in a failure result (a caught exception or an     *)
(* unknown category) returns the label "error" and is recorded in the      *)
(* metrics under "error": get_metrics reports one more "error" request.    *)
(***************************************************************************)
\* the count get_metrics reports for a label (nothing reported counts as 0)
ReportedCount(l) ==
    IF l \in DOMAIN get_metrics(metrics) THEN get_metrics(metrics)[l].total_queries ELSE 0

C8_ErrorRecorded ==
    (Finished /\ outcome.kind = "returned"
       /\ (exc # None \/ Branch(category) = "unknown")) =>
        /\ ReturnedLabel = "error"
        /\ ReportedCount("error") = completed["error"]

(***************************************************************************)
(* C9.  After any sequence of completed calls, get_metrics reports for     *)
(* every outcome label the number of completed calls that returned it,     *)
(* and an average of total time / count (to the two decimals it rounds     *)
(* to), 0 when the count is 0.                                             *)
(***************************************************************************)
C9_CountsMatch ==
    pc = "idle" =>
        \A l \in AllLabels :
            /\ ReportedCount(l) = completed[l]
            /\ l \in DOMAIN metrics =>
                   LET m == get_metrics(metrics)[l]
                   IN  /\ m.total_queries = 0 => m.avg_time = 0
                       /\ m.total_queries > 0 =>
                              /\ 2 * (10 * m.avg_time * m.total_queries
                                        - metrics[l].total_time) <= 10 * m.total_queries
                              /\ 2 * (metrics[l].total_time
                                        - 10 * m.avg_time * m.total_queries)
                                     <= 10 * m.total_queries

(***************************************************************************)
(* C10.  Increments of the shared metrics are atomic: when calls update    *)
(* the metrics concurrently no update is lost, so once they have all       *)
(* returned every label's count is the number of calls that ended with it  *)
(* and its total time is the sum of their elapsed times.                   *)
(***************************************************************************)
C10_NoLostUpdate ==
    (\A t \in Threads : thr.t[t].pc = "idle") =>
        \A l \in MetricLabels :
            /\ metrics[l].count = completed[l]
            /\ metrics[l].total_time = thr.time[l]

(***************************************************************************)
(* C11.  Whenever process_query classifies a question (no force_workflow), *)
(* the router is given the question and the conversation context of the    *)
(* session, that is the messages handed to process_query: what the router  *)
(* receives is the question together with the rendering of those messages, *)
(* so the same question after different histories is a different input.    *)
(***************************************************************************)
C11_ClassifierGetsContext ==
    \A i \in 1..Len(trace) :
        trace[i].fn = "router.classify" =>
            trace[i].input = RouterChainInput(call.query, call.messages)

(***************************************************************************)
(* C12.  process_query never writes the conversation memory: while the     *)
(* handler is inside it the store is what it was when the call was made.   *)
(* The handler adds to the store only after process_query has returned,    *)
(* and when the handler returns the session's list is its list at the time *)
(* of the call followed by exactly one turn, the question and then the     *)
(* returned answer text (cut to the last 20 messages), every other session *)
(* being untouched; so it is too when the result is labelled "error".      *)
(***************************************************************************)
C12_Turn == <<HumanMessage(QuestionText(api.query)), AIMessage(outcome.result.content)>>

C12_CallerAppendsTurn ==
    /\ api.pc = "process_query" => THREAD_MESSAGES = api.store0
    /\ api.pc = "add_ai" => (pc = "idle" /\ outcome.kind = "returned")
    /\ api.pc = "done" =>
           /\ outcome.kind = "returned"
           /\ get_thread_messages(THREAD_MESSAGES, api.thread_id)
                = LastN(get_thread_messages(api.store0, api.thread_id) \o C12_Turn,
                        MaxThreadMessages)
           /\ DOMAIN THREAD_MESSAGES = DOMAIN api.store0 \cup {api.thread_id}
           /\ \A t \in DOMAIN api.store0 \ {api.thread_id} :
                  THREAD_MESSAGES[t] = api.store0[t]

C12_Witness ==
    /\ api.pc = "done"
    /\ outcome.result.workflow_type = "error"
    /\ Len(api.messages) = 2
    /\ Len(get_thread_messages(THREAD_MESSAGES, api.thread_id)) = 4
    /\ THREAD_MESSAGES[api.thread_id][4] = AIMessage([kind |-> "error", text |-> exc])

(***************************************************************************)
(* C13.  get_thread_messages on a thread that has no list (never added to, *)
(* or cleared) returns an empty list without raising, and on any thread it *)
(* has no effect: right after the handler's get the store is what it was   *)
(* before, the thread has not been created, and a thread that has a list   *)
(* gets that list.                                                         *)
(***************************************************************************)
C13_GetIsPure ==
    api.pc = "got_messages" =>
        /\ THREAD_MESSAGES = api.store0
        /\ api.thread_id \notin DOMAIN api.store0 =>
               /\ api.messages = <<>>
               /\ api.thread_id \notin DOMAIN THREAD_MESSAGES
        /\ api.thread_id \in DOMAIN api.store0 =>
               api.messages = api.store0[api.thread_id]

\* the get of a second request, after the turn of the first was cleared
C13_Witness ==
    /\ api.pc = "got_messages"
    /\ api.thread_id = "thread_a"
    /\ ncalls = 1
    /\ call.thread_id = "thread_a"
    /\ api.messages = <<>>
    /\ DOMAIN THREAD_MESSAGES = {}

(***************************************************************************)
(* C14.  clear_thread_messages is idempotent: for any thread, with or      *)
(* without a list, clearing it twice in a row raises nothing, a get after  *)
(* the first clear and a get after the second both return the empty list,  *)
(* and the second clear leaves the whole store as the first left it (a     *)
(* clear of a thread without a list changes nothing).                      *)
(***************************************************************************)
C14_IdempotentClear ==
    \A s \in Sessions \cup {"thread_unknown"} :
        LET once == clear_thread_messages(THREAD_MESSAGES, s)
            twice == clear_thread_messages(once, s)
        IN  /\ get_thread_messages(once, s) = <<>>
            /\ get_thread_messages(twice, s) = <<>>
            /\ twice = once
            /\ s \notin DOMAIN once
            /\ s \notin DOMAIN THREAD_MESSAGES => once = THREAD_MESSAGES
            /\ \A t \in DOMAIN THREAD_MESSAGES \ {s} :
                   t \in DOMAIN once /\ once[t] = THREAD_MESSAGES[t]

\* one thread holds a full list, the other has been cleared
C14_Witness ==
    /\ hpc = None
    /\ "thread_a" \in DOMAIN THREAD_MESSAGES
    /\ Len(THREAD_MESSAGES["thread_a"]) = MaxThreadMessages
    /\ nreq["thread_b"] > 0
    /\ appended["thread_b"] = <<>>
    /\ "thread_b" \notin DOMAIN THREAD_MESSAGES

(***************************************************************************)
(* C15, as amended.  A process_query call without force_workflow calls the *)
(* router exactly once, and a call with force_workflow never calls it (the *)
(* category is the forced one); every call calls the coordinator at most   *)
(* once and hands exactly one result to its caller.                        *)
(***************************************************************************)
C15_Results ==
    completed["simple"] + completed["agentic_config"] + completed["agentic_performance"]
      + completed["agentic_recommendation"] + completed["multi_agent"]
      + completed["error"]

C15_OneDecision ==
    /\ CallsOf("router.classify") <= 1
    /\ CallsOf("coordinator.route") <= 1
    /\ call.force_workflow # None => CallsOf("router.classify") = 0
    /\ (call.force_workflow = None /\ ncalls > 0 /\ pc # "classify") =>
           CallsOf("router.classify") = 1
    /\ Finished => outcome.kind = "returned"
    /\ C15_Results = IF pc = "idle" THEN ncalls ELSE ncalls - 1

C15_Witness ==
    /\ Finished
    /\ ncalls = 2
    /\ call.force_workflow = "agentic"
    /\ CallsOf("router.classify") = 0
    /\ CallsOf("coordinator.route") = 1
    /\ ReturnedLabel = "agentic_config"
    /\ completed["simple"] = 1

\* C15 as stated: every call makes exactly one router call.
C15_AlwaysOneClassifierCall ==
    Finished =>
        /\ CallsOf("router.classify") = 1
        /\ CallsOf("coordinator.route") <= 1
        /\ outcome.kind = "returned"

(***************************************************************************)
(* C16.  Requests for different sessions do not block one another: while   *)
(* the handler of a request for one thread is inside process_query (the    *)
(* router, the coordinator or a specialist has not answered yet), the      *)
(* handler of a scheduled request for another thread can start.            *)
(***************************************************************************)
C16_NoBlocking ==
    \A r \in api.pending :
        (api.pc = "process_query" /\ pc # "idle" /\ r.thread_id # api.thread_id) =>
            ENABLED ApiGetMessages(r)

(***************************************************************************)
(* C18.  In the temporal-comparison tools, for every pair (current,        *)
(* previous) the delta is (current - previous) / previous x 100 (to the    *)
(* two decimals kept) when previous is not 0 and is 0% when previous is 0: *)
(* previous = 0, current = 5 gives 0% and previous = 10, current = 15      *)
(* gives +50%.                                                             *)
(***************************************************************************)
C18_Expected(current, previous) ==
    IF previous = 0 THEN 0 ELSE RoundDiv(10000 * (current - previous), previous)

C18_Delta ==
    /\ dlt.op = "comparar_periodos" =>
           dlt.delta.porcentaje = C18_Expected(dlt.current, dlt.previous)
    /\ dlt.op = "comparar_anuncios" =>
           /\ dlt.delta_conversiones_porcentaje
                = Number(C18_Expected(dlt.current, dlt.previous))
           /\ dlt.delta_cpa_porcentaje
                = Number(C18_Expected(dlt.current, dlt.previous))

(***************************************************************************)
(* C21  DirectAnswer.execute                                               *)
(***************************************************************************)
\* the dispatch-table entries the question text matches
C21_Matches(query) ==
    {e \in {"list", "search", "global"} :
        \E kw \in (IF e = "list" THEN ListKeywords
                   ELSE IF e = "search" THEN SearchKeywords ELSE GlobalKeywords) :
            TextIn(kw, TextLower(query))}

\* the operation of the first matching entry in the order list, search, global
C21_Operation(query) ==
    IF "list" \in C21_Matches(query) THEN "listar_campanas_func"
    ELSE IF "search" \in C21_Matches(query) THEN "buscar_campana_por_nombre_func"
    ELSE "obtener_metricas_globales_func"

\* a question that matches the search entry first and names no campaign
C21_NoName(query) ==
    /\ "list" \notin C21_Matches(query)
    /\ "search" \in C21_Matches(query)
    /\ Falsy(_extract_campaign_name(query))

C21_Label == fp.out.workflow_type = "simple"

C21_Flagged == "fallback" \in DOMAIN fp.out.metadata

\* C21 (as amended): when execute has returned, the result carries the direct
\* label; a question matching no entry invoked no operation and is flagged
\* fallback; a question whose first matching entry is the search and from
\* which no campaign name can be extracted invoked no operation and is not
\* flagged; every other question invoked exactly one operation, that of its
\* first matching entry in the order list, search, global metrics, and is
\* not flagged.
C21_DirectAnswer ==
    fp.pc = "done" =>
        /\ C21_Label
        /\ IF C21_Matches(fp.query) = {}
           THEN fp.ops = <<>> /\ C21_Flagged /\ fp.out.metadata.fallback = TRUE
           ELSE IF C21_NoName(fp.query)
           THEN fp.ops = <<>> /\ ~C21_Flagged
           ELSE fp.ops = <<C21_Operation(fp.query)>> /\ ~C21_Flagged

\* C21 witness: a question matching both the search and the global-metrics
\* entries has returned after invoking the search operation only.
C21_Witness ==
    /\ fp.pc = "done"
    /\ C21_Matches(fp.query) = {"search", "global"}
    /\ fp.ops = <<"buscar_campana_por_nombre_func">>

\* C21 (as stated): a question matching no entry invokes no operation and is
\* flagged fallback with the direct label; a question matching an entry
\* invokes exactly one operation, that of its first matching entry.
C21_ExactlyOneOperation ==
    fp.pc = "done" =>
        IF C21_Matches(fp.query) = {}
        THEN fp.ops = <<>> /\ C21_Flagged /\ C21_Label
        ELSE fp.ops = <<C21_Operation(fp.query)>>

(***************************************************************************)
(* C22  operation dispatch inside a specialist never raises                *)
(***************************************************************************)
\* the tool calls the execute-tools step that just ran was given
C22_Calls == ag.before[Len(ag.before)].tool_calls

\* the messages the last node added to the running context
C22_Added == SubSeq(ag.store[ag.agent], Len(ag.before) + 1, Len(ag.store[ag.agent]))

\* C22: an execute-tools step gives one result per emitted call, whatever
\* happened to the calls before it: an error naming the operation for a name
\* that is not in the specialist's registry, an error text for a registered
\* operation that raised, the content otherwise; the step itself returns and
\* the loop goes on to the reasoning step; an invoke is left by an exception
\* only when the capability call raised.
C22_DispatchNeverRaises ==
    /\ ag.node = "execute_tools" =>
          /\ Len(C22_Added) = Len(C22_Calls)
          /\ \A i \in 1..Len(C22_Calls) :
                LET name == C22_Calls[i].name
                    content == C22_Added[i].content
                IN  /\ C22_Added[i].type = "tool"
                    /\ content.tool_name = name
                    /\ content.kind =
                          IF name \notin tool_map(ag.agent)
                          THEN "Error: Herramienta no encontrada"
                          ELSE IF ag.outcomes[i] = "raises" THEN "Error ejecutando"
                          ELSE "content"
          /\ ag.pc = "call_llm"
    /\ ag.pc = "raised" => ag.node = "call_llm"

\* C22 witness: a batch whose first call named an unregistered operation and
\* whose second call raised was followed by a third call that was dispatched.
C22_Witness ==
    /\ ag.node = "execute_tools"
    /\ Len(C22_Calls) = 3
    /\ C22_Added[1].content.kind = "Error: Herramienta no encontrada"
    /\ C22_Added[2].content.kind = "Error ejecutando"
    /\ C22_Added[3].content.kind = "content"

(***************************************************************************)
(* C23  the running context grows by one result per call                   *)
(***************************************************************************)
\* C23: after an execute-tools step the running context is the context before
\* the step followed by exactly one result per call of the last response, in
\* emission order, each with the identifier of its call; control is at the
\* reasoning step.
C23_ContextGrows ==
    ag.node = "execute_tools" =>
        LET messages == ag.store[ag.agent]
            tool_calls == ag.before[Len(ag.before)].tool_calls
            n == Len(ag.before)
        IN  /\ Len(messages) = n + Len(tool_calls)
            /\ SubSeq(messages, 1, n) = ag.before
            /\ \A i \in 1..Len(tool_calls) :
                   /\ messages[n + i].type = "tool"
                   /\ messages[n + i].tool_call_id = tool_calls[i].id
            /\ ag.pc = "call_llm"

\* C23 witness: the second execute-tools step of an invoke has answered two
\* calls, on top of a context that already held an earlier result.
C23_Witness ==
    /\ ag.node = "execute_tools"
    /\ ag.tool_runs = 2
    /\ Len(ag.before[Len(ag.before)].tool_calls) = 2
    /\ \E i \in 1..Len(ag.before) : ag.before[i].type = "tool"

(***************************************************************************)
(* C24  termination of the specialist loop                                 *)
(***************************************************************************)
C24_Responses(messages) == {i \in 1..Len(messages) : messages[i].type = "ai"}

C24_Requests(messages) ==
    {i \in C24_Responses(messages) : messages[i].tool_calls # <<>>}

\* the loop of the current invoke is over
C24_Ended ==
    \/ ag.pc = "end"
    \/ ag.pc \in {"invoke", "done"} /\ ag.agents_used # <<>>

C24_LoopEndsOnNoCalls ==
    LET messages == ag.store[ag.agent]
    IN  /\ ag.pc = "execute_tools" => HasToolCalls(messages)
        /\ ag.pc = "end" => ag.node = "call_llm"
        /\ C24_Ended =>
              /\ messages[Len(messages)].type = "ai"
              /\ messages[Len(messages)].tool_calls = <<>>
              /\ C24_Requests(messages) = C24_Responses(messages) \ {Len(messages)}
              /\ ag.llm_calls = Cardinality(C24_Responses(messages))
              /\ ag.tool_runs = Cardinality(C24_Requests(messages))

\* C24: the loop goes to the tools exactly when the latest response holds a
\* call and ends exactly when it holds none; once ended, the zero-call
\* response is the last message of that invoke, so no capability call and no
\* operation followed it; and when no capability call raises, every invoke
\* that reached the reasoning step returns.
C24_Termination ==
    /\ []C24_LoopEndsOnNoCalls
    /\ ([](ag.pc # "raised")) =>
           ((ag.pc = "call_llm") ~> (ag.pc \in {"invoke", "done"}))

\* C24 witness: an invoke has ended after two rounds of tool calls.
C24_Witness ==
    /\ ag.pc = "end"
    /\ ag.tool_runs = 2
    /\ ag.llm_calls = 3

(***************************************************************************)
(* C26  one evolving context shared by the specialists of a multi run      *)
(***************************************************************************)
\* C26: in a multi-specialist run, the context the specialist at its
\* reasoning step works on holds every answer and operation result the
\* specialists invoked before it in the same run added.
C26_SharedContext ==
    (ag.mode = "multi" /\ ag.pc = "call_llm") =>
        \A k \in 1..Len(ag.agents_used) :
            LET earlier == ag.store[ag.agents_used[k]]
            IN  \A i \in 2..Len(earlier) :
                    \E j \in 1..Len(ag.store[ag.agent]) :
                        ag.store[ag.agent][j] = earlier[i]

(***************************************************************************)
(* C25  force_workflow selects the branch                                  *)
(***************************************************************************)
\* the collaborators called so far, the classifier left out
C25_Calls == SelectSeq(trace, LAMBDA e : e.fn # "router.classify")

\* what a call does once its category is cat
C25_Behaves(cat) ==
    /\ cat = "simple" =>
          /\ \A i \in 1..Len(C25_Calls) : C25_Calls[i].fn = "fast_path.execute"
          /\ Len(C25_Calls) <= 1
          /\ Finished => Len(C25_Calls) = 1 /\ ReturnedLabel = "simple"
    /\ cat = "agentic" =>
          /\ CallsOf("fast_path.execute") = 0
          /\ C25_Calls # <<>> => C25_Calls[1].fn = "coordinator.route"
          /\ Finished =>
                /\ CallsOf("coordinator.route") = 1
                /\ ReturnedLabel \in {"agentic_config", "agentic_performance",
                                      "agentic_recommendation", "multi_agent", "error"}
    /\ cat = "multi_agent" =>
          /\ \A i \in 1..Len(C25_Calls) : IsInvoke(C25_Calls[i])
          /\ Len(InvokedSeq) <= Len(MultiPlan(call.query))
          /\ InvokedSeq = SubSeq(MultiPlan(call.query), 1, Len(InvokedSeq))
          /\ Finished => ReturnedLabel \in {"multi_agent", "error"}
    /\ cat \notin RouterCategories =>
          /\ C25_Calls = <<>>
          /\ Finished =>
                /\ ReturnedLabel = "error"
                /\ outcome.result.metadata = [error |-> "unknown_category"]

\* C25: a call given a force_workflow makes no classifier call and takes the
\* branch of the value given: the fast path for simple, the coordinator and
\* then a specialist or the multi path for agentic, the multi path for
\* multi_agent, each as a call classified so does; any other value gives an
\* error-labelled result and no collaborator is called.
C25_ForceCategory ==
    /\ (call.force_workflow # None /\ ncalls > 0) =>
          /\ CallsOf("router.classify") = 0
          /\ pc # "classify" => category = call.force_workflow
          /\ C25_Behaves(call.force_workflow)
    /\ (call.force_workflow = None /\ ncalls > 0 /\ pc # "classify"
          /\ exc # "router_failed") =>
          /\ CallsOf("router.classify") = 1
          /\ C25_Behaves(category)

\* C25 witness: a call forced to a value that is no category has returned the
\* error-labelled result, and nothing was called.
C25_Witness ==
    /\ Finished
    /\ call.force_workflow = "bogus"
    /\ trace = <<>>
    /\ ReturnedLabel = "error"

(***************************************************************************)
(* C27  ordering of the ad ranking                                         *)
(***************************************************************************)
C27_Cost == rk.ordenar_por \in {"cpa", "cpc"}

\* the ad has a value of the metric the ranking is ordered by
C27_HasValue(x) == rk.ordenar_por = "cpa" => ~x.cpa_total.null

C27_Value(x) ==
    CASE rk.ordenar_por = "clicks" -> x.clicks
      [] rk.ordenar_por = "ctr" -> x.ctr
      [] rk.ordenar_por = "conversiones" -> x.conversiones_total
      [] rk.ordenar_por = "cpc" -> x.cpc
      [] rk.ordenar_por = "cpa" -> x.cpa_total.value

\* x is strictly better than y: lower for a cost metric, higher for a volume
\* or rate metric; an ad that has no value of the metric is better than none
C27_Better(x, y) ==
    /\ C27_HasValue(x)
    /\ \/ ~C27_HasValue(y)
       \/ IF C27_Cost THEN C27_Value(x) < C27_Value(y) ELSE C27_Value(x) > C27_Value(y)

\* C27: the returned list holds min(limite, number of ads) ads; no ad of the
\* list is strictly better than an ad placed before it, and no ad left out is
\* strictly better than an ad of the list, so the list is a best-first prefix
\* of the ads in full order.
C27_BestFirst ==
    rk.op = "obtener_anuncios_por_rendimiento" =>
        LET top == rk.top_anuncios
            all == [i \in 1..Len(rk.insights) |-> Anuncio(rk.insights[i], i)]
            ids == {top[i].ad_id : i \in 1..Len(top)}
        IN  /\ Len(top) = Min(rk.limite, Len(rk.insights))
            /\ \A i \in 1..Len(top) : top[i] = all[top[i].ad_id]
            /\ Cardinality(ids) = Len(top)
            /\ \A i \in 1..Len(top) : \A j \in (i + 1)..Len(top) :
                   ~C27_Better(top[j], top[i])
            /\ \A k \in 1..Len(all) : k \notin ids =>
                   \A i \in 1..Len(top) : ~C27_Better(all[k], top[i])

(***************************************************************************)
(* C28  the stored history alternates question and answer                  *)
(***************************************************************************)
\* C28: when no request is between its two adds, the stored history of every
\* session has even length and holds a question at every odd place and an
\* answer at every even place, the answer of the question before it; this
\* holds once the cap of 20 messages is reached and the oldest messages are
\* dropped.
C28_Alternates ==
    hpc = None =>
        \A s \in Sessions :
            LET got == get_thread_messages(THREAD_MESSAGES, s)
            IN  /\ Len(got) % 2 = 0
                /\ \A i \in 1..Len(got) :
                       got[i].type = IF i % 2 = 1 THEN "human" ELSE "ai"
                /\ \A i \in 1..Len(got) :
                       i % 2 = 0 => got[i].content = got[i - 1].content

\* C28 witness: a session has completed 12 requests; its history holds 20
\* messages and begins with the third question.
C28_Witness ==
    \E s \in Sessions :
        /\ hpc = None
        /\ nreq[s] = 12
        /\ Len(get_thread_messages(THREAD_MESSAGES, s)) = 20
        /\ get_thread_messages(THREAD_MESSAGES, s)[1] = HumanMessage(3)

(***************************************************************************)
(* C29  a multi-specialist run and its agents_used                         *)
(***************************************************************************)
C29_Rank(agent) ==
    CASE agent = "config" -> 1 [] agent = "performance" -> 2 [] agent = "recommendation" -> 3

\* the result of the call in progress is that of the multi path
C29_Merged ==
    /\ Finished
    /\ multi.i >= 1
    /\ ReturnedLabel = "multi_agent"

\* the merged result lists exactly the specialists invoked, in the order
\* config, performance, recommendation, with one section each and the header
\* count equal to their number
C29_ListsInvoked ==
    LET used == outcome.result.metadata.agents_used
        merged == outcome.result.content
    IN  /\ used = InvokedSeq
        /\ \A i \in 1..Len(used) : \A j \in (i + 1)..Len(used) :
               C29_Rank(used[i]) < C29_Rank(used[j])
        /\ merged.header = Len(used)
        /\ Len(merged.sections) = Len(used)
        /\ \A i \in 1..Len(used) : merged.sections[i].title = SectionTitle(used[i])

\* C29 (as amended): a multi-specialist run in which no invoke raised returns
\* the merged result, has invoked at least two specialists, and its result
\* lists exactly those; a run in which an invoke raised has invoked at least
\* one specialist and returns the error result.
C29_MultiRun ==
    (Finished /\ multi.i >= 1) =>
        /\ exc = None => C29_Merged /\ Len(InvokedSeq) >= 2 /\ C29_ListsInvoked
        /\ exc # None => ReturnedLabel = "error" /\ Len(InvokedSeq) >= 1

\* C29 witness: a multi-specialist run on a question with a performance and
\* an optimization keyword has returned a merged answer of three sections.
C29_Witness ==
    /\ C29_Merged
    /\ InvokedSeq = <<"config", "performance", "recommendation">>
    /\ outcome.result.content.header = 3

\* C29 (as stated): every multi-specialist run invokes at least two
\* specialists, and its result lists exactly the specialists invoked.
C29_AtLeastTwo ==
    (Finished /\ multi.i >= 1) =>
        /\ Len(InvokedSeq) >= 2
        /\ C29_Merged => C29_ListsInvoked

(***************************************************************************)
(* C30  session isolation                                                  *)
(***************************************************************************)
\* what get(s) returns is a run of the messages added to s, in their order,
\* up to the last one
C30_OwnEntries ==
    \A s \in Sessions :
        LET got == get_thread_messages(THREAD_MESSAGES, s)
            all == appended[s]
        IN  /\ Len(got) <= Len(all)
            /\ got = SubSeq(all, Len(all) - Len(got) + 1, Len(all))

\* a step changes the stored list of one session at most, and an add changes
\* only the list of the session of the request that makes it
C30_Frame ==
    \A t \in Sessions :
        get_thread_messages(THREAD_MESSAGES', t) # get_thread_messages(THREAD_MESSAGES, t)
        =>  /\ hpc' # None => t = hpc'
            /\ hpc # None => t = hpc
            /\ \A u \in Sessions \ {t} :
                   get_thread_messages(THREAD_MESSAGES', u)
                     = get_thread_messages(THREAD_MESSAGES, u)

\* C30: an add or a clear on one session leaves the stored list of every
\* other session as it was, and in every state get(s) holds only messages
\* added to s, in the order they were added.
C30_SessionIsolation == []C30_OwnEntries /\ [][C30_Frame]_vars

\* C30 witness: one session was cleared after two requests while the other
\* keeps the six messages of its three requests.
C30_Witness ==
    /\ hpc = None
    /\ nreq["thread_a"] = 2
    /\ get_thread_messages(THREAD_MESSAGES, "thread_a") = <<>>
    /\ nreq["thread_b"] = 3
    /\ Len(get_thread_messages(THREAD_MESSAGES, "thread_b")) = 6

====
